---- MODULE Spec2Model ----
(***************************************************************************)
(* Batch image processor (python_2025/batch_image_processor/core.py).      *)
(*                                                                         *)
(* The model follows BatchImageProcessor: construction (which creates the  *)
(* output folder), process_images (enumeration, the per-file try block     *)
(* with its `with Image.open(...)` block, the fold of the operations, the  *)
(* derivation of the output path and save parameters, the save, and the    *)
(* recording of each file in results['success'] or results['failed']).     *)
(*                                                                         *)
(* File names and format names are sequences of one-character strings, so  *)
(* that str.lower, str.endswith, os.path.splitext and the f-string of      *)
(* _get_output_path are computed character by character.  Operation names  *)
(* and flip modes are only ever compared for equality by the code and are  *)
(* plain strings.                                                          *)
(***************************************************************************)
EXTENDS Integers, Sequences, FiniteSets, TLC

(***************************************************************************)
(* Bounds of the model.                                                    *)
(***************************************************************************)
\* Largest number of directory entries in the input folder of a batch run.
MaxFiles == 2
\* Longest operation list of a batch run over a whole folder.
MaxBatchOps == 1
\* Longest operation list of a run over a folder that holds one image.
MaxOps == 2
\* Largest side, in pixels, of an image a helper is called on.
MaxSide == 4
\* Largest width or height a resize call asks for.
MaxTarget == 3
\* Greatest number of threads the start button starts in a behaviour.
MaxStarts == 3

(***************************************************************************)
(* Strings.                                                                *)
(***************************************************************************)
\* Python's None, as a value no string of characters can equal.
None == <<"None">>

\* str.lower() on one character (the upper-case letters the model uses).
LowerChar(c) ==
    CASE c = "A" -> "a"
      [] c = "B" -> "b"
      [] c = "C" -> "c"
      [] c = "E" -> "e"
      [] c = "F" -> "f"
      [] c = "G" -> "g"
      [] c = "I" -> "i"
      [] c = "J" -> "j"
      [] c = "L" -> "l"
      [] c = "N" -> "n"
      [] c = "O" -> "o"
      [] c = "P" -> "p"
      [] c = "R" -> "r"
      [] c = "T" -> "t"
      [] c = "X" -> "x"
      [] c = "Y" -> "y"
      [] c = "Z" -> "z"
      [] OTHER -> c

\* str.lower()
Lower(s) == [i \in 1..Len(s) |-> LowerChar(s[i])]

\* str.endswith(suffix)
EndsWith(s, suffix) ==
    /\ Len(suffix) <= Len(s)
    /\ SubSeq(s, Len(s) - Len(suffix) + 1, Len(s)) = suffix

\* Truth value of an Optional[str]: None and '' are falsy.
Truthy(s) == s # None /\ s # <<>>

(***************************************************************************)
(* The file system the processor runs against.                             *)
(***************************************************************************)
\* The directory entries an input folder may hold.  kind is "file" or
\* "dir"; data says what Image.open finds behind the name: "image" (a
\* decodable image), "garbage" (no image: Image.open raises), "truncated"
\* (a header Image.open accepts and pixel data the first load rejects).
EntryPool ==
    { [name |-> <<"a", ".", "g", "i", "f">>,      kind |-> "file", data |-> "image"],
      [name |-> <<"a", ".", "P", "N", "G">>,      kind |-> "file", data |-> "image"],
      [name |-> <<"b", ".", "j", "p", "g">>,      kind |-> "file", data |-> "garbage"],
      [name |-> <<"c", ".", "p", "n", "g">>,      kind |-> "file", data |-> "truncated"],
      [name |-> <<"d", ".", "p", "n", "g">>,      kind |-> "dir",  data |-> "none"],
      [name |-> <<"n", ".", "t", "x", "t">>,      kind |-> "file", data |-> "image"],
      [name |-> <<".", "h", ".", "p", "n", "g">>, kind |-> "file", data |-> "image"] }

\* Sequences without repetition of at most n elements of S: the orders in
\* which os.listdir may hand a folder's entries to glob.
RECURSIVE Listings(_, _)
Listings(S, n) ==
    IF n = 0 THEN { <<>> }
    ELSE LET shorter == Listings(S, n - 1)
         IN  shorter \cup
             { Append(p[1], p[2]) :
                 p \in { q \in shorter \X S :
                           /\ Len(q[1]) = n - 1
                           /\ \A i \in 1..Len(q[1]) : q[1][i] # q[2] } }

\* The two folders of the model; the output folder may be the input folder.
Folders == { "in", "out" }

\* os.path.join(folder, name), for a name that holds no separator.
Join(folder, name) == [dir |-> folder, name |-> name]

\* os.path.basename(path)
Basename(path) == path.name

\* The greatest position of a "." in s that follows a character other than
\* ".", or 0: where os.path.splitext cuts (leading dots are no extension).
DotCut(s) ==
    LET cuts == { i \in 2..Len(s) :
                    /\ s[i] = "."
                    /\ \E j \in 1..(i - 1) : s[j] # "." }
    IN  IF cuts = {} THEN 0
        ELSE CHOOSE i \in cuts : \A j \in cuts : j <= i

\* os.path.splitext(name): <<root, ext>>
Splitext(s) ==
    IF DotCut(s) = 0 THEN << s, <<>> >>
    ELSE << SubSeq(s, 1, DotCut(s) - 1), SubSeq(s, DotCut(s), Len(s)) >>

\* Whether glob's pattern '*.*' matches a name: fnmatch needs a ".", and
\* glob hides the names that start with "." from a pattern that does not.
GlobStarDotStar(s) ==
    /\ Len(s) > 0
    /\ s[1] # "."
    /\ \E i \in 1..Len(s) : s[i] = "."

(***************************************************************************)
(* BatchImageProcessor: class attributes and path helpers.                 *)
(***************************************************************************)
SUPPORTED_FORMATS ==
    { <<".", "j", "p", "g">>, <<".", "j", "p", "e", "g">>, <<".", "p", "n", "g">>,
      <<".", "g", "i", "f">>, <<".", "b", "m", "p">>, <<".", "w", "e", "b", "p">>,
      <<".", "t", "i", "f", "f">> }

\* _is_supported_format(filename)
_is_supported_format(filename) ==
    \E suffix \in SUPPORTED_FORMATS : EndsWith(Lower(filename), suffix)

\* _get_image_files(): glob keeps the order of the listing and returns
\* directories as well as files.
_get_image_files(folder, listing) ==
    LET all_files == SelectSeq(listing, LAMBDA e : GlobStarDotStar(e.name))
        kept      == SelectSeq(all_files, LAMBDA e : _is_supported_format(e.name))
    IN  [i \in 1..Len(kept) |-> Join(folder, kept[i].name)]

\* kwargs.get(key) for a key whose values are strings.
Get(kwargs, key) == IF key \in DOMAIN kwargs THEN kwargs[key] ELSE None

\* _get_output_path with the format appended to the whole file name.
_get_output_path_append(output_folder, input_path, target_format) ==
    LET filename == Basename(input_path)
    IN  IF Truthy(target_format)
        THEN Join(output_folder, filename \o <<".">> \o Lower(target_format))
        ELSE Join(output_folder, filename)

\* _get_output_path(input_path, target_format)
_get_output_path(output_folder, input_path, target_format) ==
    LET filename == Basename(input_path)
    IN  IF Truthy(target_format)
        THEN Join(output_folder,
                  Splitext(filename)[1] \o <<".">> \o Lower(target_format))
        ELSE Join(output_folder, filename)

\* The compress_level _get_save_params sets for PNG.
PngCompressLevel == 6

\* _get_save_params(params): the dictionary, as a function on its keys.
_get_save_params(params) ==
    LET quality == IF "quality" \in DOMAIN params
                   THEN "quality" :> params["quality"] ELSE <<>>
        png     == IF Get(params, "format") = <<"P", "N", "G">>
                   THEN "compress_level" :> PngCompressLevel ELSE <<>>
    IN  quality @@ png

(***************************************************************************)
(* Images and the operation set.                                           *)
(*                                                                         *)
(* An image is its size, its colour mode and its pixel data.  Pixel data   *)
(* is the source file it was decoded from together with the sequence px    *)
(* of Pillow transformations applied since: two images are equal exactly   *)
(* when the same calls were made in the same order on the same source.     *)
(* bad marks a lazily opened file whose pixel data cannot be loaded: the   *)
(* first Pillow call that needs the pixels raises.                         *)
(***************************************************************************)
NoImage == [src |-> <<>>, w |-> 0, h |-> 0, mode |-> "", px |-> <<>>, bad |-> FALSE]

\* What Image.open(path) returns for a file it can identify.
SourceImage(entry) ==
    [src |-> entry.name, w |-> 4, h |-> 2, mode |-> "RGB", px |-> <<>>,
     bad |-> entry.data = "truncated"]

\* The outcome of a call: a returned image or a raised exception whose
\* str() is the text followed by the argument formatted into it.
Return(image) == [ok |-> TRUE, img |-> image, err |-> << "", "" >>]
Raise(text, arg) == [ok |-> FALSE, img |-> NoImage, err |-> << text, arg >>]

\* A Pillow transformation of image: it loads the pixels first.
Pil(image, call, args, w, h, mode) ==
    IF image.bad
    THEN Raise("image file is truncated", "")
    ELSE Return([src |-> image.src, w |-> w, h |-> h, mode |-> mode,
                 px |-> Append(image.px, [call |-> call, args |-> args]),
                 bad |-> FALSE])

\* The pixel grid of an image as decoded: rows of pixels, each pixel named
\* by its place in the source.
SourcePixels(image) ==
    [y \in 1..image.h |->
        [x \in 1..image.w |-> [by |-> "source", of |-> <<>>, at |-> << x, y >>]]]

\* Width of a pixel grid.
GridWidth(grid) == IF grid = <<>> THEN 0 ELSE Len(grid[1])

\* The grid one Pillow transformation makes of grid.  ImageOps.mirror,
\* ImageOps.flip, Image.crop and a quarter turn move pixels; crop fills
\* what lies outside the image; the other calls compute new pixels, named
\* by the call, the grid they were computed from and their place.
Transformed(grid, c) ==
    LET w == GridWidth(grid)
        h == Len(grid)
        computed(nw, nh) ==
            [y \in 1..nh |->
                [x \in 1..nw |-> [by |-> c.call, of |-> grid, at |-> << x, y >>]]]
    IN  CASE c.call = "mirror" ->
               [y \in 1..h |-> [x \in 1..w |-> grid[y][w + 1 - x]]]
          [] c.call = "flip" ->
               [y \in 1..h |-> grid[h + 1 - y]]
          [] c.call = "crop" ->
               [y \in 1..(c.args[4] - c.args[2]) |->
                   [x \in 1..(c.args[3] - c.args[1]) |->
                       IF /\ x + c.args[1] \in 1..w
                          /\ y + c.args[2] \in 1..h
                       THEN grid[y + c.args[2]][x + c.args[1]]
                       ELSE [by |-> "fill", of |-> <<>>, at |-> << 0, 0 >>]]]
          [] c.call = "rotate" /\ c.args[1] = 0 -> grid
          [] c.call = "rotate" /\ c.args = << 90, 1 >> ->
               [y \in 1..w |-> [x \in 1..h |-> grid[x][w + 1 - y]]]
          [] c.call = "resize" -> computed(c.args[1], c.args[2])
          [] OTHER -> computed(w, h)

\* The pixel data of the image that calls, applied in order, make of source.
RECURSIVE PixelData(_, _)
PixelData(source, calls) ==
    IF calls = <<>> THEN SourcePixels(source)
    ELSE Transformed(PixelData(source, SubSeq(calls, 1, Len(calls) - 1)),
                     calls[Len(calls)])

\* Image.resize((w, h), LANCZOS)
PilResize(image, w, h) ==
    IF w < 1 \/ h < 1
    THEN Raise("height and width must be > 0", "")
    ELSE Pil(image, "resize", << w, h >>, w, h, image.mode)

\* Whether a numeric keyword argument is given and truthy.
Given(kwargs, key) == key \in DOMAIN kwargs /\ kwargs[key] # 0

\* _resize_image with width and height looked at before scale.
_resize_image_dimensions_first(image, kwargs) ==
    IF Given(kwargs, "width") /\ Given(kwargs, "height")
    THEN PilResize(image, kwargs["width"], kwargs["height"])
    ELSE IF "scale" \in DOMAIN kwargs /\ kwargs["scale"][1] # 0
    THEN PilResize(image,
                   (image.w * kwargs["scale"][1]) \div kwargs["scale"][2],
                   (image.h * kwargs["scale"][1]) \div kwargs["scale"][2])
    ELSE IF Given(kwargs, "width")
    THEN PilResize(image, kwargs["width"],
                   (image.h * kwargs["width"]) \div image.w)
    ELSE IF Given(kwargs, "height")
    THEN PilResize(image, (image.w * kwargs["height"]) \div image.h,
                   kwargs["height"])
    ELSE Return(image)

\* _resize_image(img, width, height, scale).  scale is the fraction
\* scale[1] / scale[2]; int() of a non-negative product is its floor.
_resize_image(image, kwargs) ==
    IF "scale" \in DOMAIN kwargs /\ kwargs["scale"][1] # 0
    THEN PilResize(image,
                   (image.w * kwargs["scale"][1]) \div kwargs["scale"][2],
                   (image.h * kwargs["scale"][1]) \div kwargs["scale"][2])
    ELSE IF Given(kwargs, "width") /\ Given(kwargs, "height")
    THEN PilResize(image, kwargs["width"], kwargs["height"])
    ELSE IF Given(kwargs, "width")
    THEN PilResize(image, kwargs["width"],
                   (image.h * kwargs["width"]) \div image.w)
    ELSE IF Given(kwargs, "height")
    THEN PilResize(image, (image.w * kwargs["height"]) \div image.h,
                   kwargs["height"])
    ELSE Return(image)

\* The position names of lines 261-269.
TopLeft == <<"t", "o", "p", "-", "l", "e", "f", "t">>
TopCenter == <<"t", "o", "p", "-", "c", "e", "n", "t", "e", "r">>
TopRight == <<"t", "o", "p", "-", "r", "i", "g", "h", "t">>
CenterLeft == <<"c", "e", "n", "t", "e", "r", "-", "l", "e", "f", "t">>
Center == <<"c", "e", "n", "t", "e", "r">>
CenterRight == <<"c", "e", "n", "t", "e", "r", "-", "r", "i", "g", "h", "t">>
BottomLeft == <<"b", "o", "t", "t", "o", "m", "-", "l", "e", "f", "t">>
BottomCenter == <<"b", "o", "t", "t", "o", "m", "-", "c", "e", "n", "t", "e", "r">>
BottomRight == <<"b", "o", "t", "t", "o", "m", "-", "r", "i", "g", "h", "t">>

\* DEFAULT_WATERMARK.  The text of line 41 is written here in English;
\* the opacity 0.7 is the fraction 7/10.
DEFAULT_WATERMARK ==
    [text      |-> << "default watermark" >>,
     font_size |-> 30,
     opacity   |-> << 7, 10 >>,
     color     |-> << 255, 255, 255 >>,
     position  |-> BottomRight,
     margin    |-> 10]

\* The dictionary BatchImageProcessor.DEFAULT_WATERMARK as it is at the
\* moment: a class attribute, shared by every instance and every call.
VARIABLE default_watermark

\* What draw.textsize(text, font=font) returns for the text of a run, as
\* (text_width, text_height); the empty tuple where ImageDraw has no
\* textsize, as in Pillow 10 and later.
VARIABLE textsize

\* _calculate_watermark_position with the name looked up as it is given.
_calculate_watermark_position_exact(img_size, text_size, position, margin) ==
    LET img_width   == img_size[1]
        img_height  == img_size[2]
        text_width  == text_size[1]
        text_height == text_size[2]
        positions ==
            (TopLeft :> << margin, margin >>)
            @@ (TopCenter :> << (img_width - text_width) \div 2, margin >>)
            @@ (TopRight :> << img_width - text_width - margin, margin >>)
            @@ (CenterLeft :> << margin, (img_height - text_height) \div 2 >>)
            @@ (Center :> << (img_width - text_width) \div 2,
                             (img_height - text_height) \div 2 >>)
            @@ (CenterRight :> << img_width - text_width - margin,
                                  (img_height - text_height) \div 2 >>)
            @@ (BottomLeft :> << margin, img_height - text_height - margin >>)
            @@ (BottomCenter :> << (img_width - text_width) \div 2,
                                   img_height - text_height - margin >>)
            @@ (BottomRight :> << img_width - text_width - margin,
                                  img_height - text_height - margin >>)
    IN  IF position \in DOMAIN positions
        THEN positions[position]
        ELSE positions[BottomRight]

\* _calculate_watermark_position(img_size, text_size, position, margin);
\* // is the floor division \div.
_calculate_watermark_position(img_size, text_size, position, margin) ==
    LET img_width   == img_size[1]
        img_height  == img_size[2]
        text_width  == text_size[1]
        text_height == text_size[2]
        positions ==
            (TopLeft :> << margin, margin >>)
            @@ (TopCenter :> << (img_width - text_width) \div 2, margin >>)
            @@ (TopRight :> << img_width - text_width - margin, margin >>)
            @@ (CenterLeft :> << margin, (img_height - text_height) \div 2 >>)
            @@ (Center :> << (img_width - text_width) \div 2,
                             (img_height - text_height) \div 2 >>)
            @@ (CenterRight :> << img_width - text_width - margin,
                                  (img_height - text_height) \div 2 >>)
            @@ (BottomLeft :> << margin, img_height - text_height - margin >>)
            @@ (BottomCenter :> << (img_width - text_width) \div 2,
                                   img_height - text_height - margin >>)
            @@ (BottomRight :> << img_width - text_width - margin,
                                  img_height - text_height - margin >>)
    IN  IF Lower(position) \in DOMAIN positions
        THEN positions[Lower(position)]
        ELSE positions[BottomRight]

\* params[key] of line 204: the keyword argument, or the default.
WatermarkParam(kwargs, key) ==
    IF key \in DOMAIN kwargs THEN kwargs[key] ELSE default_watermark[key]

\* The fill of line 233: the colour followed by int(255 * opacity), the
\* opacity being the fraction opacity[1] / opacity[2].
Fill(color, opacity) == Append(color, (255 * opacity[1]) \div opacity[2])

\* _add_watermark with the default text drawn where none is given.
_add_watermark_default_text(image, kwargs) ==
    LET text == IF Truthy(Get(kwargs, "text")) THEN kwargs["text"]
                ELSE DEFAULT_WATERMARK.text
    IN  IF textsize = <<>>
        THEN Raise("'ImageDraw' object has no attribute 'textsize'", "")
        ELSE Pil(image, "alpha_composite",
                 << text,
                    WatermarkParam(kwargs, "font_size"),
                    _calculate_watermark_position(
                        << image.w, image.h >>, textsize,
                        WatermarkParam(kwargs, "position"),
                        WatermarkParam(kwargs, "margin")),
                    Fill(WatermarkParam(kwargs, "color"),
                         WatermarkParam(kwargs, "opacity")) >>,
                 image.w, image.h, "RGBA")

\* _add_watermark(img, text, ...): without text the image itself; with
\* text the composite of the image, converted to RGBA, and a layer on
\* which the text is drawn in the font size, at the position and with the
\* fill that the call records as its arguments.
_add_watermark(image, kwargs) ==
    IF ~Truthy(Get(kwargs, "text"))
    THEN Return(image)
    ELSE IF textsize = <<>>
    THEN Raise("'ImageDraw' object has no attribute 'textsize'", "")
    ELSE Pil(image, "alpha_composite",
             << kwargs["text"],
                WatermarkParam(kwargs, "font_size"),
                _calculate_watermark_position(
                    << image.w, image.h >>, textsize,
                    WatermarkParam(kwargs, "position"),
                    WatermarkParam(kwargs, "margin")),
                Fill(WatermarkParam(kwargs, "color"),
                     WatermarkParam(kwargs, "opacity")) >>,
             image.w, image.h, "RGBA")

\* _rotate_image(img, degrees=0, expand=True), for multiples of 90 degrees.
_rotate_image(image, kwargs) ==
    LET degrees == IF "degrees" \in DOMAIN kwargs THEN kwargs["degrees"] ELSE 0
        expand  == IF "expand" \in DOMAIN kwargs THEN kwargs["expand"] ELSE TRUE
        turned  == expand /\ degrees % 180 = 90
    IN  Pil(image, "rotate", << degrees, IF expand THEN 1 ELSE 0 >>,
            IF turned THEN image.h ELSE image.w,
            IF turned THEN image.w ELSE image.h, image.mode)

\* _flip_image with a quarter turn in place of ImageOps.mirror.
_flip_image_quarter_turn(image, kwargs) ==
    LET mode == IF "mode" \in DOMAIN kwargs THEN kwargs["mode"] ELSE "horizontal"
    IN  IF mode = "horizontal"
        THEN Pil(image, "rotate", << 90, 1 >>, image.h, image.w, image.mode)
        ELSE IF mode = "vertical"
        THEN Pil(image, "flip", <<>>, image.w, image.h, image.mode)
        ELSE Raise("unsupported flip mode: ", mode)

\* _flip_image that mirrors for every mode other than 'vertical'.
_flip_image_any_mode(image, kwargs) ==
    LET mode == IF "mode" \in DOMAIN kwargs THEN kwargs["mode"] ELSE "horizontal"
    IN  IF mode = "vertical"
        THEN Pil(image, "flip", <<>>, image.w, image.h, image.mode)
        ELSE Pil(image, "mirror", <<>>, image.w, image.h, image.mode)

\* _flip_image(img, mode='horizontal').  The message of line 307 is
\* written here in English.
_flip_image(image, kwargs) ==
    LET mode == IF "mode" \in DOMAIN kwargs THEN kwargs["mode"] ELSE "horizontal"
    IN  IF mode = "horizontal"
        THEN Pil(image, "mirror", <<>>, image.w, image.h, image.mode)
        ELSE IF mode = "vertical"
        THEN Pil(image, "flip", <<>>, image.w, image.h, image.mode)
        ELSE Raise("unsupported flip mode: ", mode)

\* _crop_image(img, box): Image.crop rejects only a box whose right is
\* left of its left or whose lower is above its upper.
_crop_image(image, kwargs) ==
    IF "box" \in DOMAIN kwargs /\ kwargs["box"] # <<>>
    THEN LET box == kwargs["box"]
         IN  IF box[3] < box[1]
             THEN Raise("Coordinate 'right' is less than 'left'", "")
             ELSE IF box[4] < box[2]
             THEN Raise("Coordinate 'lower' is less than 'upper'", "")
             ELSE Pil(image, "crop", box, box[3] - box[1], box[4] - box[2],
                      image.mode)
    ELSE Return(image)

\* _apply_operation with an unknown name passed over instead of rejected.
_apply_operation_lenient(image, operation, kwargs) ==
    CASE operation = "resize"    -> _resize_image(image, kwargs)
      [] operation = "watermark" -> _add_watermark(image, kwargs)
      [] operation = "rotate"    -> _rotate_image(image, kwargs)
      [] operation = "flip"      -> _flip_image(image, kwargs)
      [] operation = "crop"      -> _crop_image(image, kwargs)
      [] OTHER                   -> Return(image)

\* _apply_operation with 'convert' converting the image in the fold.
_apply_operation_converting(image, operation, kwargs) ==
    CASE operation = "resize"    -> _resize_image(image, kwargs)
      [] operation = "convert"   -> Pil(image, "convert", << Get(kwargs, "format") >>,
                                        image.w, image.h, image.mode)
      [] operation = "compress"  -> Return(image)
      [] operation = "watermark" -> _add_watermark(image, kwargs)
      [] operation = "rotate"    -> _rotate_image(image, kwargs)
      [] operation = "flip"      -> _flip_image(image, kwargs)
      [] operation = "crop"      -> _crop_image(image, kwargs)
      [] OTHER                   -> Raise("unsupported operation: ", operation)

\* The names _apply_operation dispatches on.
OperationNames ==
    { "resize", "convert", "compress", "watermark", "rotate", "flip", "crop" }

\* _apply_operation(img, operation, **kwargs); its except clause logs and
\* re-raises.  The message of line 148 is written here in English.
_apply_operation(image, operation, kwargs) ==
    CASE operation = "resize"    -> _resize_image(image, kwargs)
      [] operation = "convert"   -> Return(image)
      [] operation = "compress"  -> Return(image)
      [] operation = "watermark" -> _add_watermark(image, kwargs)
      [] operation = "rotate"    -> _rotate_image(image, kwargs)
      [] operation = "flip"      -> _flip_image(image, kwargs)
      [] operation = "crop"      -> _crop_image(image, kwargs)
      [] OTHER                   -> Raise("unsupported operation: ", operation)

\* The file extensions Pillow's save can map to an encoder.
PilExtensions == SUPPORTED_FORMATS \cup { <<".", "t", "i", "f">> }

\* The exception img.save(path) raises before it has opened path for
\* writing, or none: the pixels are loaded, the encoder is looked up by the
\* lower-cased extension of the path, and open() needs the folder.
SaveRefusal(image, path, folderExists) ==
    IF image.bad
    THEN Raise("image file is truncated", "")
    ELSE IF Lower(Splitext(path.name)[2]) \notin PilExtensions
    THEN Raise("unknown file extension", "")
    ELSE IF ~folderExists
    THEN Raise("No such file or directory", "")
    ELSE Return(image)

\* Whether Pillow keeps the file of an opened image open once its pixels
\* are loaded: it does for the multi-frame GIF container.
KeepsFileOpen(name) == Lower(Splitext(name)[2]) = <<".", "g", "i", "f">>

(***************************************************************************)
(* Inputs of a run.                                                        *)
(***************************************************************************)
\* Sequences of at most n elements of S.
RECURSIVE SeqsUpTo(_, _)
SeqsUpTo(S, n) ==
    IF n = 0 THEN { <<>> }
    ELSE LET shorter == SeqsUpTo(S, n - 1)
         IN  shorter \cup
             { Append(l, e) : l \in { x \in shorter : Len(x) = n - 1 }, e \in S }

\* The dictionaries that give key one of the values, or leave it out.
Opt(key, values) == { <<>> } \cup { key :> v : v \in values }

FormatPNG == <<"P", "N", "G">>
FormatPng == <<"p", "n", "g">>
FormatMixed == <<"P", "n", "g">>
FormatJPEG == <<"J", "P", "E", "G">>
FormatXYZ == <<"X", "Y", "Z">>
FormatTIFF == <<"T", "I", "F", "F">>

\* Requests of a run over a whole folder.
BatchOperations == SeqsUpTo({ "flip", "convert", "sharpen" }, MaxBatchOps)
BatchBags ==
    Opt("format", { None, FormatPNG, FormatPng, FormatXYZ })
    \cup
    { f @@ ("quality" :> 90) : f \in Opt("format", { FormatPNG }) }

\* Requests of a run over a folder that holds one entry.
FoldOperations == SeqsUpTo(OperationNames \cup { "sharpen" }, MaxOps)
\* Crop boxes for the 4 x 2 image of a file: inside it, reaching beyond
\* its left, right and lower edge, and with right left of left.
FoldBoxes == { << 1, 0, 3, 2 >>, << -1, 0, 5, 3 >>, << 3, 0, 1, 2 >> }
FoldBags ==
    { f @@ m @@ sc :
        f  \in Opt("format", { FormatPNG }),
        m  \in Opt("mode", { "vertical", "diagonal", "Horizontal" }),
        sc \in Opt("scale", { << 1, 2 >> }) }
    \cup
    { sc @@ ("box" :> b) :
        sc \in Opt("scale", { << 1, 2 >> }),
        b  \in FoldBoxes }
    \cup
    { "format" :> FormatTIFF, "text" :> << "h", "i" >> }

(***************************************************************************)
(* The state of a BatchImageProcessor and of its process_images call.      *)
(***************************************************************************)
VARIABLES
    listing,        \* entries of the input folder, in os.listdir order
    output_folder,  \* self.output_folder (self.input_folder is "in")
    outState,       \* the output folder on disk: "dir" (it was there),
                    \* "created" (os.makedirs made it), "missing", "blocked"
    operations,     \* the operations argument of process_images
    kwargs,         \* the keyword arguments of process_images
    pc,             \* position in __init__ / process_images
    image_files,    \* the list _get_image_files returned
    idx,            \* number of paths the for loop has taken
    img_path,       \* the loop variable
    filename,       \* os.path.basename(img_path)
    openHandles,    \* the paths held open for reading
    img,            \* the local variable img inside the with block
    opi,            \* number of operations the inner for loop has applied
    wfile,          \* the path img.save holds open for writing, or NoPath
    err,            \* str(e) of the exception in flight
    results,        \* results['success'], results['failed']
    outFiles,       \* the files img.save has written, in order
    call,           \* a call of a helper on its own: the helper and its arguments
    ret,            \* what that call returned
    processing,     \* self.processing of the window
    start_btn,      \* state of start_btn: "normal" or "disabled"
    stop_btn,       \* state of stop_btn
    message_queue,  \* self.message_queue, oldest message first
    threads         \* the threads started on _process_images, in order

inputs == << listing, output_folder, operations, kwargs, textsize,
            default_watermark >>
loop == << image_files, idx, img_path, filename >>
helper == << call, ret >>
gui == << processing, start_btn, stop_btn, message_queue, threads >>

vars == << inputs, outState, pc, loop, openHandles, img, opi, wfile, err,
           results, outFiles, helper, gui >>

\* What the window never touches.
core == << inputs, outState, pc, loop, openHandles, img, opi, wfile, err,
           results, outFiles, helper >>

\* The window of gui.py after _create_variables and _create_toolbar: no
\* thread started, nothing queued.
GuiIdle ==
    /\ processing = FALSE
    /\ start_btn = "normal"
    /\ stop_btn = "disabled"
    /\ message_queue = <<>>
    /\ threads = <<>>

NoPath == [dir |-> "", name |-> <<>>]
NoError == << "", "" >>
NoCall == [fn |-> ""]
NoReturn == [done |-> FALSE]

\* The entry of the input folder behind a path of image_files.
EntryAt(path) ==
    CHOOSE e \in { listing[i] : i \in 1..Len(listing) } : e.name = path.name

\* Whether the output folder is there.
FolderExists == outState \in { "dir", "created" }

\* The state before BatchImageProcessor(...) is called.
NotConstructed ==
    /\ pc = "new"
    /\ image_files = <<>>
    /\ idx = 0
    /\ img_path = NoPath
    /\ filename = <<>>
    /\ openHandles = {}
    /\ img = NoImage
    /\ opi = 0
    /\ wfile = NoPath
    /\ err = NoError
    /\ results = [success |-> <<>>, failed |-> <<>>]
    /\ outFiles = <<>>

\* A run over a whole folder, with any output folder.
BatchInit ==
    /\ listing \in Listings(EntryPool, MaxFiles)
    /\ operations \in BatchOperations
    /\ kwargs \in BatchBags
    /\ output_folder \in Folders
    /\ outState \in IF output_folder = "in" THEN { "dir" }
                    ELSE { "dir", "missing", "blocked" }

\* A run over a folder of one file that Image.open accepts, with any
\* operation list.
FoldInit ==
    /\ listing \in { << e >> : e \in { x \in EntryPool :
                                           /\ x.kind = "file"
                                           /\ x.data # "garbage"
                                           /\ x.name[1] \in { "a", "c" } } }
    /\ operations \in FoldOperations
    /\ kwargs \in FoldBags
    /\ output_folder = "out"
    /\ outState = "dir"

Init ==
    /\ BatchInit \/ FoldInit
    /\ textsize = <<>>
    /\ default_watermark = DEFAULT_WATERMARK
    /\ NotConstructed
    /\ call = NoCall
    /\ ret = NoReturn
    /\ GuiIdle

\* Construct without the call of _ensure_output_folder().
ConstructWithoutFolder ==
    /\ pc = "new"
    /\ pc' = "ready"
    /\ UNCHANGED << inputs, outState, loop, openHandles, img, opi, wfile,
                    err, results, outFiles, helper, gui >>

\* __init__: _ensure_output_folder() creates the folder or raises.
Construct ==
    /\ pc = "new"
    /\ IF outState = "blocked"
       THEN /\ pc' = "init_raised"
            /\ err' = << "cannot create output folder", "" >>
            /\ UNCHANGED outState
       ELSE /\ pc' = "ready"
            /\ outState' = IF outState = "missing" THEN "created" ELSE outState
            /\ UNCHANGED err
    /\ UNCHANGED << inputs, loop, openHandles, img, opi, wfile, results,
                    outFiles, helper, gui >>

\* process_images, lines 87-88: the empty results and the enumeration.
BeginProcess ==
    /\ pc = "ready"
    /\ results' = [success |-> <<>>, failed |-> <<>>]
    /\ image_files' = _get_image_files("in", listing)
    /\ pc' = "loop"
    /\ UNCHANGED << inputs, outState, idx, img_path, filename, openHandles,
                    img, opi, wfile, err, outFiles, helper, gui >>

\* The for loop takes the next path; the try block computes filename.
NextFile ==
    /\ pc = "loop"
    /\ idx < Len(image_files)
    /\ idx' = idx + 1
    /\ img_path' = image_files[idx + 1]
    /\ filename' = Basename(image_files[idx + 1])
    /\ pc' = "open"
    /\ UNCHANGED << inputs, outState, image_files, openHandles, img, opi,
                    wfile, err, results, outFiles, helper, gui >>

\* OpenImage with a file that cannot be opened skipped without a record.
OpenImageSkip ==
    /\ pc = "open"
    /\ LET entry == EntryAt(img_path)
       IN  IF entry.kind = "dir" \/ entry.data = "garbage"
           THEN /\ pc' = "loop"
                /\ UNCHANGED << openHandles, img, opi >>
           ELSE /\ openHandles' = openHandles \cup { img_path }
                /\ img' = SourceImage(entry)
                /\ opi' = 0
                /\ pc' = "fold"
    /\ UNCHANGED << inputs, outState, loop, wfile, err, results, outFiles,
                    helper, gui >>

\* Image.open(img_path): a directory and a file that is no image raise
\* before the with block is entered.
OpenImage ==
    /\ pc = "open"
    /\ LET entry == EntryAt(img_path)
       IN  IF entry.kind = "dir"
           THEN /\ err' = << "Is a directory", "" >>
                /\ pc' = "except"
                /\ UNCHANGED << openHandles, img, opi >>
           ELSE IF entry.data = "garbage"
           THEN /\ err' = << "cannot identify image file", "" >>
                /\ pc' = "except"
                /\ UNCHANGED << openHandles, img, opi >>
           ELSE /\ openHandles' = openHandles \cup { img_path }
                /\ img' = SourceImage(entry)
                /\ opi' = 0
                /\ pc' = "fold"
                /\ UNCHANGED err
    /\ UNCHANGED << inputs, outState, loop, wfile, results, outFiles, helper, gui >>

\* The sets of open paths Pillow may leave once the pixels of the image
\* opened from path are loaded: it may close the file then, unless the
\* container keeps it open.
HandlesAfterLoad(path) ==
    IF KeepsFileOpen(path.name)
    THEN { openHandles }
    ELSE { openHandles, openHandles \ { path } }

\* ApplyNext with every operation applied to the image as it was opened
\* instead of to the result of the operation before it.
ApplyNextUnchained ==
    /\ pc = "fold"
    /\ opi < Len(operations)
    /\ LET r == _apply_operation(SourceImage(EntryAt(img_path)),
                               operations[opi + 1], kwargs)
       IN  IF r.ok
           THEN /\ img' = r.img
                /\ opi' = opi + 1
                /\ openHandles' \in IF img.px = <<>> /\ r.img.px # <<>>
                                    THEN HandlesAfterLoad(img_path)
                                    ELSE { openHandles }
                /\ UNCHANGED << pc, err >>
           ELSE /\ err' = r.err
                /\ pc' = "exit_raised"
                /\ UNCHANGED << img, opi, openHandles >>
    /\ UNCHANGED << inputs, outState, loop, wfile, results, outFiles, helper, gui >>

\* ApplyNext with _add_watermark merging the keyword arguments into the
\* class dictionary itself instead of into a copy of it.
ApplyNextSharingDefaults ==
    /\ pc = "fold"
    /\ opi < Len(operations)
    /\ LET r == _apply_operation(img, operations[opi + 1], kwargs)
       IN  IF r.ok
           THEN /\ img' = r.img
                /\ opi' = opi + 1
                /\ openHandles' \in IF img.px = <<>> /\ r.img.px # <<>>
                                    THEN HandlesAfterLoad(img_path)
                                    ELSE { openHandles }
                /\ UNCHANGED << pc, err >>
           ELSE /\ err' = r.err
                /\ pc' = "exit_raised"
                /\ UNCHANGED << img, opi, openHandles >>
    /\ default_watermark' =
         IF operations[opi + 1] = "watermark" /\ Truthy(Get(kwargs, "text"))
         THEN [key \in DOMAIN default_watermark |->
                   WatermarkParam(kwargs, key)]
         ELSE default_watermark
    /\ UNCHANGED << listing, output_folder, operations, kwargs, textsize,
                    outState, loop, wfile, results, outFiles, helper, gui >>

\* One turn of `for op in operations: img = self._apply_operation(...)`.
\* The first transformation loads the pixels of the opened image.
ApplyNext ==
    /\ pc = "fold"
    /\ opi < Len(operations)
    /\ LET r == _apply_operation(img, operations[opi + 1], kwargs)
       IN  IF r.ok
           THEN /\ img' = r.img
                /\ opi' = opi + 1
                /\ openHandles' \in IF img.px = <<>> /\ r.img.px # <<>>
                                    THEN HandlesAfterLoad(img_path)
                                    ELSE { openHandles }
                /\ UNCHANGED << pc, err >>
           ELSE /\ err' = r.err
                /\ pc' = "exit_raised"
                /\ UNCHANGED << img, opi, openHandles >>
    /\ UNCHANGED << inputs, outState, loop, wfile, results, outFiles, helper, gui >>

\* BeginSave taken at any turn of the inner loop, before the operations
\* that are left.
BeginSaveEarly ==
    /\ pc = "fold"
    /\ LET output_path == _get_output_path(output_folder, img_path,
                                        Get(kwargs, "format"))
           r           == SaveRefusal(img, output_path, FolderExists)
       IN  IF r.ok
           THEN /\ wfile' = output_path
                /\ pc' = "saving"
                /\ UNCHANGED err
           ELSE /\ err' = r.err
                /\ pc' = "exit_raised"
                /\ UNCHANGED wfile
    /\ openHandles' \in IF img.px = <<>> /\ ~img.bad
                        THEN HandlesAfterLoad(img_path)
                        ELSE { openHandles }
    /\ UNCHANGED << inputs, outState, loop, img, opi, results, outFiles,
                    helper, gui >>

\* BeginSave refusing an output path that this run has already written.
BeginSaveDetecting ==
    /\ pc = "fold"
    /\ opi = Len(operations)
    /\ LET output_path == _get_output_path(output_folder, img_path,
                                        Get(kwargs, "format"))
           r           == SaveRefusal(img, output_path, FolderExists)
           written     == { outFiles[k].path : k \in 1..Len(outFiles) }
       IN  IF r.ok /\ output_path \notin written
           THEN /\ wfile' = output_path
                /\ pc' = "saving"
                /\ UNCHANGED err
           ELSE /\ err' = IF r.ok THEN << "output path already written", "" >>
                                  ELSE r.err
                /\ pc' = "exit_raised"
                /\ UNCHANGED wfile
    /\ openHandles' \in IF img.px = <<>> /\ ~img.bad
                        THEN HandlesAfterLoad(img_path)
                        ELSE { openHandles }
    /\ UNCHANGED << inputs, outState, loop, img, opi, results, outFiles,
                    helper, gui >>

\* Lines 101-103 up to the point where img.save has opened output_path.
BeginSave ==
    /\ pc = "fold"
    /\ opi = Len(operations)
    /\ LET output_path == _get_output_path(output_folder, img_path,
                                        Get(kwargs, "format"))
           r           == SaveRefusal(img, output_path, FolderExists)
       IN  IF r.ok
           THEN /\ wfile' = output_path
                /\ pc' = "saving"
                /\ UNCHANGED err
           ELSE /\ err' = r.err
                /\ pc' = "exit_raised"
                /\ UNCHANGED wfile
    /\ openHandles' \in IF img.px = <<>> /\ ~img.bad
                        THEN HandlesAfterLoad(img_path)
                        ELSE { openHandles }
    /\ UNCHANGED << inputs, outState, loop, img, opi, results, outFiles,
                    helper, gui >>

\* img.save encodes img with save_params and closes output_path.
FinishSave ==
    /\ pc = "saving"
    /\ outFiles' = Append(outFiles, [path |-> wfile, img |-> img,
                                     params |-> _get_save_params(kwargs)])
    /\ wfile' = NoPath
    /\ pc' = "exit_saved"
    /\ UNCHANGED << inputs, outState, loop, openHandles, img, opi, err,
                    results, helper, gui >>

\* ExitWith for an image opened without a with block: nothing is closed.
ExitWithoutClose ==
    /\ pc \in { "exit_saved", "exit_raised" }
    /\ pc' = IF pc = "exit_saved" THEN "saved" ELSE "except"
    /\ UNCHANGED << inputs, outState, loop, openHandles, img, opi, wfile, err,
                    results, outFiles, helper, gui >>

\* The with block is left, normally or by an exception: the image that
\* Image.open returned is closed.
ExitWith ==
    /\ pc \in { "exit_saved", "exit_raised" }
    /\ openHandles' = openHandles \ { img_path }
    /\ pc' = IF pc = "exit_saved" THEN "saved" ELSE "except"
    /\ UNCHANGED << inputs, outState, loop, img, opi, wfile, err, results,
                    outFiles, helper, gui >>

\* Line 105: results['success'].append(filename)
RecordSuccess ==
    /\ pc = "saved"
    /\ results' = [results EXCEPT !.success = Append(@, filename)]
    /\ pc' = "loop"
    /\ UNCHANGED << inputs, outState, loop, openHandles, img, opi, wfile,
                    err, outFiles, helper, gui >>

\* RecordFailure with the except clause re-raising instead of recording.
RecordFailureReraise ==
    /\ pc = "except"
    /\ pc' = "raised"
    /\ UNCHANGED << inputs, outState, loop, openHandles, img, opi, wfile,
                    err, results, outFiles, helper, gui >>

\* Lines 107-109: results['failed'].append((filename, str(e)))
RecordFailure ==
    /\ pc = "except"
    /\ results' = [results EXCEPT !.failed = Append(@, << filename, err >>)]
    /\ err' = NoError
    /\ pc' = "loop"
    /\ UNCHANGED << inputs, outState, loop, openHandles, img, opi, wfile,
                    outFiles, helper, gui >>

\* Line 111: return results
ReturnResults ==
    /\ pc = "loop"
    /\ idx = Len(image_files)
    /\ pc' = "returned"
    /\ UNCHANGED << inputs, outState, loop, openHandles, img, opi, wfile,
                    err, results, outFiles, helper, gui >>

Next ==
    \/ Construct
    \/ BeginProcess
    \/ NextFile
    \/ OpenImage
    \/ ApplyNext
    \/ BeginSave
    \/ FinishSave
    \/ ExitWith
    \/ RecordSuccess
    \/ RecordFailure
    \/ ReturnResults

Spec == Init /\ [][Next]_vars

(***************************************************************************)
(* The path and save-parameter helpers called on their own.                *)
(***************************************************************************)
\* The file names _get_output_path is called with.
HelperNames ==
    { e.name : e \in EntryPool } \cup
    { <<"R", "E", "A", "D", "M", "E">>, <<"a", ".", "b", ".", "j", "p", "g">>,
      <<"a", ".">> }

\* An image held in memory, w pixels wide and h high.
Bitmap(w, h, mode) ==
    [src |-> <<"m", "e", "m">>, w |-> w, h |-> h, mode |-> mode, px |-> <<>>,
     bad |-> FALSE]

\* The images the helpers are called on: every size up to MaxSide.
HelperImages == { Bitmap(w, h, "RGB") : w \in 1..MaxSide, h \in 1..MaxSide }

\* Scale factors as fractions: 0, 1/8, 1/4, 1/2, 3/4, 1, 3/2 and 2.  Each
\* is a binary fraction, so the double-precision products of
\* _resize_image are the exact ones.
ScalePool ==
    { << 0, 1 >>, << 1, 8 >>, << 1, 4 >>, << 1, 2 >>, << 3, 4 >>, << 1, 1 >>,
      << 3, 2 >>, << 2, 1 >> }

\* The keyword arguments _resize_image is called with.  For sides and
\* targets up to 8 the double-precision h * (width / w) has the integer
\* part of the exact quotient.
ResizeBags ==
    { sc @@ wd @@ ht :
        sc \in Opt("scale", ScalePool),
        wd \in Opt("width", 0..MaxTarget),
        ht \in Opt("height", 0..MaxTarget) }

ResizeCalls ==
    { [fn |-> "_resize_image", image |-> i, kwargs |-> k] :
        i \in HelperImages, k \in ResizeBags }

\* The values _flip_image is given for mode, or none.
FlipBags == Opt("mode", { "horizontal", "vertical", "diagonal", "Horizontal" })

FlipCalls ==
    { [fn |-> "_flip_image", image |-> i, kwargs |-> k] :
        i \in HelperImages, k \in FlipBags }

\* What draw.textsize may give: nothing, a text smaller than every image
\* but the smallest, and a text wider than every image.
TextSizes == { <<>>, << 2, 1 >>, << 5, 2 >> }

\* Opacities as fractions: 0, 1/4, 1/2, 7/10 and 1.  For each of them the
\* double-precision 255 * opacity has the integer part of the exact
\* product.
OpacityPool == { << 0, 1 >>, << 1, 4 >>, << 1, 2 >>, << 7, 10 >>, << 1, 1 >> }

\* Position names that are none of the nine as written: three of them in
\* other letter case, and three that no letter case makes one of them.
OtherPositions ==
    { <<"T", "O", "P", "-", "L", "E", "F", "T">>, <<"C", "e", "n", "t", "e", "r">>,
      <<"B", "o", "t", "t", "o", "m", "-", "C", "e", "n", "t", "e", "r">>,
      <<"c", "e", "n", "t", "e", "r", "-", "c", "e", "n", "t", "e", "r">>, <<"n", "o", "w", "h", "e", "r", "e">>,
      <<>> }

\* The keyword arguments _add_watermark is called with.
WatermarkBags ==
    { t @@ o @@ p @@ m @@ fs @@ c :
        t  \in Opt("text", { None, <<>>, <<"h", "i">> }),
        o  \in Opt("opacity", OpacityPool),
        p  \in Opt("position", { TopLeft, <<"n", "o", "w", "h", "e", "r", "e">> }),
        m  \in Opt("margin", { 1 }),
        fs \in Opt("font_size", { 12 }),
        c  \in Opt("color", { << 0, 0, 0 >> }) }

WatermarkCalls ==
    { [fn |-> "_add_watermark", image |-> Bitmap(i.w, i.h, mode), kwargs |-> k] :
        i \in HelperImages, mode \in { "RGB", "RGBA" }, k \in WatermarkBags }

PositionCalls ==
    { [fn |-> "_calculate_watermark_position",
       img_size |-> << i.w, i.h >>, text_size |-> ts, position |-> p,
       margin |-> m] :
        i \in HelperImages,
        ts \in TextSizes \ { <<>> },
        p \in OtherPositions
              \cup { TopLeft, TopCenter, TopRight, CenterLeft, Center,
                      CenterRight, BottomLeft, BottomCenter, BottomRight },
        m \in { 0, 1, 10 } }

HelperCalls ==
    ResizeCalls
    \cup
    FlipCalls
    \cup
    WatermarkCalls
    \cup
    PositionCalls
    \cup
    { [fn |-> "_get_output_path", input_path |-> Join("in", n), target_format |-> f] :
        n \in HelperNames,
        f \in { None, <<>>, FormatPNG, FormatPng, FormatMixed, FormatJPEG, FormatXYZ } }
    \cup
    { [fn |-> "_get_save_params", params |-> f @@ q] :
        f \in Opt("format", { None, <<>>, FormatPNG, FormatPng, FormatMixed,
                              FormatJPEG, FormatXYZ }),
        q \in Opt("quality", { 0, 90 }) }

HelperInit ==
    /\ listing = <<>>
    /\ operations = <<>>
    /\ kwargs = <<>>
    /\ call \in HelperCalls
    /\ output_folder \in IF call.fn = "_get_output_path" THEN Folders
                          ELSE { "out" }
    /\ textsize \in IF call.fn = "_add_watermark" THEN { <<>>, << 2, 1 >> }
                     ELSE { <<>> }
    /\ default_watermark = DEFAULT_WATERMARK
    /\ outState = "dir"
    /\ NotConstructed
    /\ ret = NoReturn
    /\ GuiIdle

CallGetOutputPath ==
    /\ call.fn = "_get_output_path"
    /\ ~ret.done
    /\ ret' = [done |-> TRUE,
               value |-> _get_output_path(output_folder, call.input_path,
                                       call.target_format)]
    /\ UNCHANGED << inputs, outState, pc, loop, openHandles, img, opi, wfile,
                    err, results, outFiles, call, gui >>

CallGetSaveParams ==
    /\ call.fn = "_get_save_params"
    /\ ~ret.done
    /\ ret' = [done |-> TRUE, value |-> _get_save_params(call.params)]
    /\ UNCHANGED << inputs, outState, pc, loop, openHandles, img, opi, wfile,
                    err, results, outFiles, call, gui >>

CallResizeImage ==
    /\ call.fn = "_resize_image"
    /\ ~ret.done
    /\ ret' = [done |-> TRUE, value |-> _resize_image(call.image, call.kwargs)]
    /\ UNCHANGED << inputs, outState, pc, loop, openHandles, img, opi, wfile,
                    err, results, outFiles, call, gui >>

CallFlipImage ==
    /\ call.fn = "_flip_image"
    /\ ~ret.done
    /\ ret' = [done |-> TRUE, value |-> _flip_image(call.image, call.kwargs)]
    /\ UNCHANGED << inputs, outState, pc, loop, openHandles, img, opi, wfile,
                    err, results, outFiles, call, gui >>

\* _flip_image called on the image the first call returned.
CallFlipImageAgain ==
    /\ call.fn = "_flip_image"
    /\ ret.done
    /\ ret.value.ok
    /\ "again" \notin DOMAIN ret
    /\ ret' = [done |-> TRUE, value |-> ret.value,
               again |-> _flip_image(ret.value.img, call.kwargs)]
    /\ UNCHANGED << inputs, outState, pc, loop, openHandles, img, opi, wfile,
                    err, results, outFiles, call, gui >>

CallAddWatermark ==
    /\ call.fn = "_add_watermark"
    /\ ~ret.done
    /\ ret' = [done |-> TRUE, value |-> _add_watermark(call.image, call.kwargs)]
    /\ UNCHANGED << inputs, outState, pc, loop, openHandles, img, opi, wfile,
                    err, results, outFiles, call, gui >>

CallCalculateWatermarkPosition ==
    /\ call.fn = "_calculate_watermark_position"
    /\ ~ret.done
    /\ ret' = [done |-> TRUE,
               value |-> _calculate_watermark_position(
                             call.img_size, call.text_size, call.position,
                             call.margin)]
    /\ UNCHANGED << inputs, outState, pc, loop, openHandles, img, opi, wfile,
                    err, results, outFiles, call, gui >>

HelperNext ==
    \/ CallAddWatermark
    \/ CallCalculateWatermarkPosition
    \/ CallGetOutputPath
    \/ CallGetSaveParams
    \/ CallResizeImage
    \/ CallFlipImage
    \/ CallFlipImageAgain

SpecHelpers == HelperInit /\ [][HelperNext]_vars

(***************************************************************************)
(* What one file alone gives: the reference the recorded results are       *)
(* compared with.                                                          *)
(***************************************************************************)
\* The left fold of _apply_operation over ops, stopped by the first raise.
RECURSIVE Fold(_, _, _)
Fold(image, ops, kw) ==
    IF ops = <<>> THEN Return(image)
    ELSE LET r == Fold(image, SubSeq(ops, 1, Len(ops) - 1), kw)
         IN  IF r.ok THEN _apply_operation(r.img, ops[Len(ops)], kw) ELSE r

\* Whether Image.open and the decoder accept the entry.
Decodable(entry) == entry.kind = "file" /\ entry.data = "image"

\* The outcome of opening, transforming and saving one entry under the
\* request of the run, whatever else the folder holds.
FileOutcome(entry) ==
    IF entry.kind = "dir" THEN Raise("Is a directory", "")
    ELSE IF entry.data = "garbage" THEN Raise("cannot identify image file", "")
    ELSE LET r == Fold(SourceImage(entry), operations, kwargs)
         IN  IF r.ok
             THEN SaveRefusal(r.img,
                              _get_output_path(output_folder, Join("in", entry.name),
                                            Get(kwargs, "format")),
                              TRUE)
             ELSE r

\* The entries process_images enumerates, in order.
Enumerated == [i \in 1..Len(image_files) |-> EntryAt(image_files[i])]

\* The names recorded in results['failed'].
FailedNames == [i \in 1..Len(results.failed) |-> results.failed[i][1]]

\* Number of positions of seq that hold x.
Count(seq, x) == Cardinality({ i \in 1..Len(seq) : seq[i] = x })

\* process_images has been entered and has not returned.
Running ==
    pc \in { "loop", "open", "fold", "saving", "exit_saved", "exit_raised",
             "saved", "except" }

\* A file has been taken by the loop and is not recorded yet.
InFile ==
    pc \in { "open", "fold", "saving", "exit_saved", "exit_raised", "saved",
             "except" }

\* process_images is at a step of its code from which either it has
\* returned or a next step exists: no exception has left the call.
NeverRaises ==
    /\ pc \in { "new", "init_raised", "ready", "returned" } \/ Running
    /\ pc = "loop" => idx <= Len(image_files)
    /\ pc = "fold" => opi <= Len(operations)

Undecodable == { i \in 1..Len(image_files) : ~Decodable(Enumerated[i]) }

RequestSucceeds ==
    \A i \in 1..Len(image_files) :
        Decodable(Enumerated[i]) => FileOutcome(Enumerated[i]).ok

(***************************************************************************)
(* C1.  For every input folder whose enumeration yields N supported files  *)
(* of which K cannot be decoded, and a request that succeeds on every      *)
(* decodable file, process_images returns exactly N-K names in 'success'   *)
(* and exactly K entries in 'failed'; and no exception leaves the call.    *)
(***************************************************************************)
C1_CorruptFilesCounted ==
    /\ NeverRaises
    /\ pc = "returned" /\ RequestSucceeds =>
         /\ Len(results.success) = Len(image_files) - Cardinality(Undecodable)
         /\ Len(results.failed) = Cardinality(Undecodable)

\* A run over two supported files, one of them corrupt, has returned.
C1_Witness ==
    /\ pc = "returned"
    /\ RequestSucceeds
    /\ Len(image_files) = 2
    /\ Cardinality(Undecodable) = 1
    /\ Len(results.success) = 1
    /\ Len(results.failed) = 1

(***************************************************************************)
(* C2.  A failure of one file at any stage (open, an operation, the save)  *)
(* is caught at the file boundary and appended to 'failed' as a            *)
(* (filename, message) pair, and the loop goes on: whenever the loop is    *)
(* between two files, each file taken so far is recorded exactly once, in  *)
(* 'failed' with a message if one of its stages raised and in 'success'    *)
(* otherwise, and at the return every enumerated file has been taken, so   *)
(* that len(success) + len(failed) is the number of enumerated files.      *)
(***************************************************************************)
C2_EveryFileRecordedOnce ==
    /\ pc \in { "loop", "returned" } =>
         /\ Len(results.success) + Len(results.failed) = idx
         /\ \A i \in 1..idx :
              LET name   == Basename(image_files[i])
                  raised == ~FileOutcome(Enumerated[i]).ok
              IN  /\ Count(results.success, name) = (IF raised THEN 0 ELSE 1)
                  /\ Count(FailedNames, name) = (IF raised THEN 1 ELSE 0)
         /\ \A k \in 1..Len(results.failed) : results.failed[k][2] # NoError
    /\ pc = "returned" => idx = Len(image_files)
    /\ pc \in { "exit_raised", "except" } =>
         /\ err # NoError
         /\ Count(results.success, filename) = 0
         /\ Count(FailedNames, filename) = 0

\* A run has returned in which the first file failed in Image.open and the
\* second in img.save.
C2_Witness ==
    /\ pc = "returned"
    /\ Len(results.failed) = 2
    /\ results.failed[1][2] = << "cannot identify image file", "" >>
    /\ results.failed[2][2] = << "unknown file extension", "" >>

\* The positions of operations that hold an unknown name.
UnknownAt == { k \in 1..Len(operations) : operations[k] \notin OperationNames }

\* The position of the unknown name the fold of entry reaches, or 0.
ReachedUnknown(entry) ==
    IF entry.kind = "file" /\ entry.data # "garbage" /\ UnknownAt # {}
    THEN LET k == CHOOSE x \in UnknownAt : \A y \in UnknownAt : x <= y
         IN  IF Fold(SourceImage(entry), SubSeq(operations, 1, k - 1), kwargs).ok
             THEN k ELSE 0
    ELSE 0

(***************************************************************************)
(* C3.  When the operation list holds a name outside the catalog, each     *)
(* file whose fold reaches that name is recorded in 'failed' with a        *)
(* message that holds the name and is never in 'success'; the call does    *)
(* not raise; and what is recorded for a file is what that file alone      *)
(* gives, whatever files come before or after it.                          *)
(***************************************************************************)
C3_UnknownOperationFailsOnlyItsFile ==
    /\ NeverRaises
    /\ pc \in { "loop", "returned" } =>
         \A i \in 1..idx :
            LET name == Basename(image_files[i])
                o    == FileOutcome(Enumerated[i])
                k    == ReachedUnknown(Enumerated[i])
            IN  /\ k > 0 =>
                     /\ Count(results.success, name) = 0
                     /\ \E j \in 1..Len(results.failed) :
                           /\ results.failed[j][1] = name
                           /\ results.failed[j][2][2] = operations[k]
                /\ o.ok => Count(results.success, name) = 1
                /\ ~o.ok => Count(results.failed, << name, o.err >>) = 1

\* A run under an unknown operation has returned: the first file failed in
\* Image.open, the second for the unknown operation.
C3_Witness ==
    /\ pc = "returned"
    /\ operations = << "sharpen" >>
    /\ Len(results.failed) = 2
    /\ results.failed[1][2] = << "cannot identify image file", "" >>
    /\ results.failed[2][2] = << "unsupported operation: ", "sharpen" >>

\* The names of the regular files of the folder with a supported extension.
SupportedFileNames ==
    { listing[i].name : i \in { j \in 1..Len(listing) :
          /\ listing[j].kind = "file"
          /\ Lower(Splitext(listing[j].name)[2]) \in SUPPORTED_FORMATS } }

RecordedNames ==
    { results.success[i] : i \in 1..Len(results.success) } \cup
    { FailedNames[i] : i \in 1..Len(FailedNames) }

(***************************************************************************)
(* C4.  The paths process_images attempts are exactly the regular files    *)
(* directly in the input folder whose extension, compared without regard   *)
(* to case, is supported; every other entry, a sub-directory included, is  *)
(* in neither 'success' nor 'failed'.                                      *)
(***************************************************************************)
C4_OnlySupportedRegularFiles ==
    /\ Running \/ pc = "returned" => RecordedNames \subseteq SupportedFileNames
    /\ pc = "returned" => RecordedNames = SupportedFileNames

(***************************************************************************)
(* C5.  The output folder exists before the first file of any batch is     *)
(* opened or written: the constructor creates it, and a failure to create  *)
(* it leaves the constructor as one error before any file is attempted,    *)
(* never as an entry of 'failed'.                                          *)
(***************************************************************************)
C5_OutputFolderBeforeAnyFile ==
    /\ pc \notin { "new", "init_raised" } => FolderExists
    /\ (idx > 0 \/ openHandles # {} \/ wfile # NoPath \/ outFiles # <<>>)
         => FolderExists
    /\ pc = "init_raised" =>
         /\ err = << "cannot create output folder", "" >>
         /\ idx = 0
         /\ results = [success |-> <<>>, failed |-> <<>>]
         /\ openHandles = {}
         /\ outFiles = <<>>
    /\ \A k \in 1..Len(results.failed) :
         results.failed[k][2] \notin { << "cannot create output folder", "" >>,
                                       << "No such file or directory", "" >> }

\* A file is being written into a folder the constructor created.
C5_Witness ==
    /\ outState = "created"
    /\ pc = "saving"
    /\ wfile.dir = output_folder

UpperChars == { "A", "E", "G", "J", "N", "P", "X", "Y", "Z" }

(***************************************************************************)
(* C6.  For every input path and target format, _get_output_path returns   *)
(* a path directly inside the output folder whose base name (the name      *)
(* without its extension) is that of the input file; without a target      *)
(* format the file name is unchanged, and with one the extension is "."    *)
(* followed by the format name in lower case.                              *)
(***************************************************************************)
C6_OutputPathKeepsBaseName ==
    ret.done /\ call.fn = "_get_output_path" =>
        LET name == call.input_path.name
            fmt  == call.target_format
            out  == ret.value
            ext  == Splitext(out.name)[2]
        IN  /\ out.dir = output_folder
            /\ Splitext(out.name)[1] = Splitext(name)[1]
            /\ ~Truthy(fmt) => out.name = name
            /\ Truthy(fmt) =>
                 /\ \A i \in 1..Len(ext) : ext[i] \notin UpperChars
                 /\ Len(ext) = Len(fmt) + 1
                 /\ ext[1] = "."
                 /\ \A i \in 1..Len(fmt) : LowerChar(ext[i + 1]) = LowerChar(fmt[i])

\* _get_output_path has turned a.gif and format 'PNG' into a.png.
C6_Witness ==
    /\ ret.done
    /\ call.fn = "_get_output_path"
    /\ call.input_path.name = <<"a", ".", "g", "i", "f">>
    /\ call.target_format = FormatPNG
    /\ ret.value.name = <<"a", ".", "p", "n", "g">>

(***************************************************************************)
(* C7.  The save parameters hold 'quality' exactly when the parameter bag  *)
(* holds a 'quality' key, with the bag's value, and hold the fixed PNG     *)
(* compression level exactly when the target format is PNG: every file     *)
(* whose output extension is '.png' because of the target format is saved  *)
(* with that compression level, in whatever letter case the format name    *)
(* was given.                                                              *)
(***************************************************************************)
C7_PngCompressionInAnyCase ==
    \A k \in 1..Len(outFiles) :
        LET params == outFiles[k].params
            fmt    == Get(kwargs, "format")
        IN  /\ "quality" \in DOMAIN params <=> "quality" \in DOMAIN kwargs
            /\ "quality" \in DOMAIN params => params["quality"] = kwargs["quality"]
            /\ "compress_level" \in DOMAIN params <=>
                 Truthy(fmt) /\ Lower(fmt) = <<"p", "n", "g">>
            /\ "compress_level" \in DOMAIN params =>
                 params["compress_level"] = PngCompressLevel

(***************************************************************************)
(* C8.  For each file the operations are applied in the order of the       *)
(* list, each once, operation i+1 on the image operation i returned, and   *)
(* the image saved is the result of the last one; the first operation      *)
(* that raises stops the fold, so that no later operation is applied.      *)
(***************************************************************************)
C8_FoldInOrder ==
    /\ pc \in { "fold", "saving", "exit_saved", "exit_raised", "saved" } =>
         /\ opi <= Len(operations)
         /\ Fold(SourceImage(EntryAt(img_path)), SubSeq(operations, 1, opi), kwargs)
              = Return(img)
    /\ pc \in { "saving", "exit_saved", "saved" } => opi = Len(operations)
    /\ pc \in { "exit_saved", "saved" } =>
         outFiles[Len(outFiles)].img
           = Fold(SourceImage(EntryAt(img_path)), operations, kwargs).img
    /\ pc = "exit_raised" /\ opi < Len(operations) =>
         /\ ~_apply_operation(img, operations[opi + 1], kwargs).ok
         /\ err = _apply_operation(img, operations[opi + 1], kwargs).err

\* Two different transformations have been applied, the second to the
\* result of the first, and the result is being saved.
C8_Witness ==
    /\ pc = "saving"
    /\ operations = << "resize", "flip" >>
    /\ Len(img.px) = 2
    /\ img.px[1].call = "resize"
    /\ img.px[2].call = "flip"
    /\ img.w = 2

\* The position in image_files of the path named name.
Position(name) ==
    CHOOSE i \in 1..Len(image_files) : Basename(image_files[i]) = name

InEnumerationOrder(names) ==
    \A i, j \in 1..Len(names) : i < j => Position(names[i]) < Position(names[j])

(***************************************************************************)
(* C9.  process_images takes the files one at a time in enumeration        *)
(* order: a file is opened only when every file before it is recorded and  *)
(* its image closed, at most one input image is open at any moment, and    *)
(* the entries of 'success' and of 'failed' are in enumeration order.      *)
(***************************************************************************)
C9_OneFileAtATime ==
    /\ Cardinality(openHandles) <= 1
    /\ openHandles # {} =>
         /\ openHandles = { image_files[idx] }
         /\ pc \in { "fold", "saving", "exit_saved", "exit_raised" }
    /\ InFile =>
         /\ Len(results.success) + Len(results.failed) = idx - 1
         /\ img_path = image_files[idx]
    /\ pc \in { "open", "loop", "returned" } => openHandles = {}
    /\ Running \/ pc = "returned" =>
         /\ \A n \in RecordedNames :
               \E i \in 1..idx : Basename(image_files[i]) = n
         /\ InEnumerationOrder(results.success)
         /\ InEnumerationOrder(FailedNames)

\* The second file is open while the first is recorded and closed.
C9_Witness ==
    /\ pc = "fold"
    /\ idx = 2
    /\ Len(results.success) = 1
    /\ openHandles = { image_files[2] }

(***************************************************************************)
(* C10.  No file is opened for writing while it is open for reading: for   *)
(* every input folder, output folder and target format, the path being     *)
(* saved is never a path whose read handle is open.                        *)
(***************************************************************************)
C10_NeverWriteAnOpenFile ==
    wfile # NoPath => wfile \notin openHandles


(***************************************************************************)
(* Claims about _resize_image, under SpecHelpers.                          *)
(***************************************************************************)
\* A finished call of _resize_image.
Resized == call.fn = "_resize_image" /\ ret.done

\* The largest integer that is at most n / d, for n >= 0 and d > 0.
Floor(n, d) == CHOOSE k \in 0..n : k * d <= n /\ n < (k + 1) * d

\* The sides floor(w * s) and floor(h * s) of the image of the call under
\* the scale of the call.
ScaledW == Floor(call.image.w * call.kwargs["scale"][1], call.kwargs["scale"][2])
ScaledH == Floor(call.image.h * call.kwargs["scale"][1], call.kwargs["scale"][2])

\* The keyword arguments of the call without key.
Without(key) == [k \in DOMAIN call.kwargs \ { key } |-> call.kwargs[k]]

(* C11 as stated.  For every image of size (w, h) and every supplied       *)
(* scale s, _resize_image returns an image of size (floor(w*s),            *)
(* floor(h*s)), whether or not width and height are supplied too.          *)
C11_ScaleAlwaysFloors ==
    Resized /\ "scale" \in DOMAIN call.kwargs
        => /\ ret.value.ok
           /\ ret.value.img.w = ScaledW
           /\ ret.value.img.h = ScaledH

(* C11.  For every image of size (w, h) and every supplied scale s other   *)
(* than 0 for which floor(w*s) and floor(h*s) are both at least 1,         *)
(* _resize_image returns an image of size (floor(w*s), floor(h*s)),        *)
(* whether or not width and height are supplied too.  When one of the two  *)
(* is 0 the call raises, and a scale of 0 counts as not supplied: the      *)
(* call returns what it returns without the scale.                         *)
C11_ScaleFloorsWhenPositive ==
    Resized /\ "scale" \in DOMAIN call.kwargs
        => IF call.kwargs["scale"][1] = 0
           THEN ret.value = _resize_image(call.image, Without("scale"))
           ELSE IF ScaledW >= 1 /\ ScaledH >= 1
           THEN /\ ret.value.ok
                /\ ret.value.img.w = ScaledW
                /\ ret.value.img.h = ScaledH
           ELSE ~ret.value.ok

\* A 3 x 2 image scaled by 3/2 although width 1 and height 1 are supplied:
\* the result is 4 x 3.
C11_Witness ==
    /\ Resized
    /\ call.image.w = 3 /\ call.image.h = 2
    /\ call.kwargs = ("scale" :> << 3, 2 >>) @@ ("width" :> 1) @@ ("height" :> 1)
    /\ ret.value.ok
    /\ ret.value.img.w = 4 /\ ret.value.img.h = 3

\* round(n / d) as Python rounds: to the nearest integer, a half to the
\* even neighbour.
Round(n, d) ==
    LET f    == Floor(n, d)
        rest == 2 * (n - f * d)
    IN  IF rest < d THEN f
        ELSE IF rest > d THEN f + 1
        ELSE IF f % 2 = 0 THEN f ELSE f + 1

\* Whether the call supplies a positive value for key.
Supplies(key) == key \in DOMAIN call.kwargs /\ call.kwargs[key] > 0

\* Whether the call leaves key out.
Omits(key) == key \notin DOMAIN call.kwargs

(* C12.  With only width W supplied the result has size                    *)
(* (W, round(h * W / w)); with only height H supplied it has size          *)
(* (round(w * H / h), H); with none of scale, width and height the image   *)
(* comes back unchanged.  Stated for the requests whose rounded side is    *)
(* at least 1.                                                             *)
C12_OneSideRounds ==
    (Resized /\ Omits("scale")) =>
        /\ ( /\ Supplies("width")
             /\ Omits("height")
             /\ Round(call.image.h * call.kwargs["width"], call.image.w) >= 1 )
           => ( /\ ret.value.ok
                /\ ret.value.img.w = call.kwargs["width"]
                /\ ret.value.img.h =
                     Round(call.image.h * call.kwargs["width"], call.image.w) )
        /\ ( /\ Supplies("height")
             /\ Omits("width")
             /\ Round(call.image.w * call.kwargs["height"], call.image.h) >= 1 )
           => ( /\ ret.value.ok
                /\ ret.value.img.h = call.kwargs["height"]
                /\ ret.value.img.w =
                     Round(call.image.w * call.kwargs["height"], call.image.h) )
        /\ (Omits("width") /\ Omits("height")) => ret.value = Return(call.image)

(* C13.  For every image of size (w, h) and every positive width W         *)
(* supplied without height and scale, resize returns an image whose width  *)
(* is W and whose height differs from h * W / w by less than one pixel.    *)
C13_WidthKeepsAspect ==
    Resized /\ Supplies("width") /\ Omits("height") /\ Omits("scale")
        => /\ ret.value.ok
           /\ ret.value.img.w = call.kwargs["width"]
           /\ ret.value.img.h * call.image.w
                > call.image.h * call.kwargs["width"] - call.image.w
           /\ ret.value.img.h * call.image.w
                < call.image.h * call.kwargs["width"] + call.image.w

(***************************************************************************)
(* Claims about _flip_image.                                               *)
(***************************************************************************)
\* _flip_image has been called on an image and again on what it returned.
FlippedTwice == call.fn = "_flip_image" /\ "again" \in DOMAIN ret

\* The mode of the flip call.
FlipMode ==
    IF "mode" \in DOMAIN call.kwargs THEN call.kwargs["mode"] ELSE "horizontal"

(* C14.  Flipping an image twice with mode 'horizontal' gives an image of  *)
(* the original size, colour mode and pixel data, and so does flipping it  *)
(* twice with mode 'vertical'.                                             *)
C14_FlipTwiceRestores ==
    FlippedTwice /\ FlipMode \in { "horizontal", "vertical" }
        => /\ ret.again.ok
           /\ ret.again.img.w = call.image.w
           /\ ret.again.img.h = call.image.h
           /\ ret.again.img.mode = call.image.mode
           /\ PixelData(call.image, ret.again.img.px)
                = PixelData(call.image, call.image.px)

\* A 3 x 2 image flipped twice with mode 'horizontal', the first flip
\* having moved its pixels.
C14_Witness ==
    /\ FlippedTwice
    /\ call.kwargs = ("mode" :> "horizontal")
    /\ call.image.w = 3 /\ call.image.h = 2
    /\ PixelData(call.image, ret.value.img.px)
         # PixelData(call.image, call.image.px)
    /\ ret.again.ok

\* The request asks for a flip with a mode that is neither 'horizontal'
\* nor 'vertical'.
BadFlipMode ==
    "mode" \in DOMAIN kwargs /\ kwargs["mode"] \notin { "horizontal", "vertical" }

\* The operations before the first flip of the request.
BeforeFirstFlip ==
    SubSeq(operations, 1,
           (CHOOSE k \in 1..Len(operations) :
               /\ operations[k] = "flip"
               /\ \A j \in 1..(k - 1) : operations[j] # "flip") - 1)

\* The files process_images has recorded so far, as positions of
\* image_files.
Recorded ==
    IF pc = "returned" THEN 1..Len(image_files)
    ELSE IF pc = "loop" THEN 1..idx
    ELSE IF InFile THEN 1..(idx - 1)
    ELSE {}

\* The rows of grid, each reversed.
MirroredRows(grid) ==
    [y \in 1..Len(grid) |->
        [x \in 1..GridWidth(grid) |-> grid[y][GridWidth(grid) + 1 - x]]]

(* C15.  A flip whose mode is anything but exactly 'horizontal' or         *)
(* 'vertical' raises and returns no image; in process_images the file      *)
(* then becomes a (filename, message) failure and nothing is saved for     *)
(* it.  A flip with no mode in the parameter bag mirrors horizontally.     *)
C15_BadFlipModeFailsTheFile ==
    /\ (InFile /\ BadFlipMode) =>
         /\ \A k \in 1..opi : operations[k] # "flip"
         /\ ( /\ pc = "exit_raised"
              /\ opi < Len(operations)
              /\ operations[opi + 1] = "flip" )
            => err = << "unsupported flip mode: ", kwargs["mode"] >>
    /\ (BadFlipMode /\ \E k \in 1..Len(operations) : operations[k] = "flip") =>
         \A i \in Recorded :
             /\ Count(FailedNames, Enumerated[i].name) = 1
             /\ Count(results.success, Enumerated[i].name) = 0
             /\ \A j \in 1..Len(outFiles) : outFiles[j].img.src # Enumerated[i].name
             /\ ( /\ Enumerated[i].kind = "file"
                  /\ Enumerated[i].data # "garbage"
                  /\ Fold(SourceImage(Enumerated[i]), BeforeFirstFlip, kwargs).ok )
                => \E j \in 1..Len(results.failed) :
                       results.failed[j]
                         = << Enumerated[i].name,
                              << "unsupported flip mode: ", kwargs["mode"] >> >>
    /\ ( /\ pc = "fold"
         /\ opi >= 1
         /\ operations[opi] = "flip"
         /\ "mode" \notin DOMAIN kwargs )
       => ( /\ img.px[Len(img.px)].call = "mirror"
            /\ PixelData(SourceImage(EntryAt(img_path)), img.px)
                 = MirroredRows(PixelData(SourceImage(EntryAt(img_path)),
                                          SubSeq(img.px, 1, Len(img.px) - 1))) )

\* process_images has returned from a folder holding the decodable a.gif
\* under a request of resize and flip with mode 'diagonal': the file is
\* recorded with the message of the flip and nothing was saved.
C15_Witness ==
    /\ pc = "returned"
    /\ operations = << "resize", "flip" >>
    /\ kwargs = ("mode" :> "diagonal") @@ ("scale" :> << 1, 2 >>)
    /\ results.success = <<>>
    /\ results.failed
         = << << <<"a", ".", "g", "i", "f">>,
                 << "unsupported flip mode: ", "diagonal" >> >> >>
    /\ outFiles = <<>>

(***************************************************************************)
(* Claims about _crop_image.                                               *)
(***************************************************************************)
\* Whether box = (left, upper, right, lower) lies within image and is not
\* empty.
ValidBox(box, image) ==
    /\ 0 <= box[1] /\ box[1] < box[3] /\ box[3] <= image.w
    /\ 0 <= box[2] /\ box[2] < box[4] /\ box[4] <= image.h

\* Whether the fold over the file at position i of image_files comes to a
\* crop whose box does not fit the image it is given.
MeetsInvalidBox(i) ==
    /\ "box" \in DOMAIN kwargs
    /\ Enumerated[i].kind = "file"
    /\ Enumerated[i].data # "garbage"
    /\ \E k \in 1..Len(operations) :
          /\ operations[k] = "crop"
          /\ Fold(SourceImage(Enumerated[i]), SubSeq(operations, 1, k - 1),
                  kwargs).ok
          /\ ~ValidBox(kwargs["box"],
                       Fold(SourceImage(Enumerated[i]),
                            SubSeq(operations, 1, k - 1), kwargs).img)

(* C16.  crop returns the sub-rectangle of its box only when               *)
(* 0 <= left < right <= width and 0 <= upper < lower <= height of the      *)
(* current image; for every other box crop is an error, and the file is    *)
(* recorded as failed and not saved.                                       *)
C16_InvalidBoxFailsTheFile ==
    /\ (InFile /\ "box" \in DOMAIN kwargs) =>
         \A k \in 1..opi :
             operations[k] = "crop" =>
                 ValidBox(kwargs["box"],
                          Fold(SourceImage(EntryAt(img_path)),
                               SubSeq(operations, 1, k - 1), kwargs).img)
    /\ \A i \in Recorded :
          MeetsInvalidBox(i) =>
              /\ Count(FailedNames, Enumerated[i].name) = 1
              /\ Count(results.success, Enumerated[i].name) = 0
              /\ \A j \in 1..Len(outFiles) :
                    outFiles[j].img.src # Enumerated[i].name

(***************************************************************************)
(* Claims about _add_watermark and _calculate_watermark_position.          *)
(***************************************************************************)
\* A finished call of _add_watermark.
Watermarked == call.fn = "_add_watermark" /\ ret.done

(* C17.  A watermark whose text is absent or empty changes nothing,        *)
(* whatever the image and the other watermark parameters: the image        *)
(* returned has the size, the colour mode and the pixel data of the image  *)
(* given, and is not converted to RGBA.                                    *)
C17_NoTextNoWatermark ==
    (Watermarked /\ Get(call.kwargs, "text") \in { None, <<>> })
        => /\ ret.value.ok
           /\ ret.value.img = call.image
           /\ ret.value.img.w = call.image.w
           /\ ret.value.img.h = call.image.h
           /\ ret.value.img.mode = call.image.mode
           /\ PixelData(call.image, ret.value.img.px)
                = PixelData(call.image, call.image.px)

\* _add_watermark has returned from a call with the empty text and with
\* opacity, position, margin, font size and colour all given, on an RGB
\* image and with a Pillow that has textsize.
C17_Witness ==
    /\ Watermarked
    /\ DOMAIN call.kwargs
         = { "text", "opacity", "position", "margin", "font_size", "color" }
    /\ call.kwargs["text"] = <<>>
    /\ call.image.mode = "RGB"
    /\ textsize # <<>>
    /\ ret.value.img.mode = "RGB"

\* A finished call of _calculate_watermark_position.
Positioned == call.fn = "_calculate_watermark_position" /\ ret.done

\* The nine position names.
NinePositions ==
    { TopLeft, TopCenter, TopRight, CenterLeft, Center, CenterRight,
      BottomLeft, BottomCenter, BottomRight }

\* The largest integer that is at most n / 2, for any integer n.
HalfDown(n) == CHOOSE k \in -(MaxSide + 10)..(MaxSide + 10) : 2 * k <= n /\ n < 2 * k + 2

\* The coordinate of the anchor called name for the image size, text
\* extent and margin of the call: the text is margin pixels from the edge
\* it is anchored to, and centred along an axis it is centred on.
Anchor(name) ==
    LET free_w == call.img_size[1] - call.text_size[1]
        free_h == call.img_size[2] - call.text_size[2]
        x == IF name \in { TopLeft, CenterLeft, BottomLeft } THEN call.margin
             ELSE IF name \in { TopRight, CenterRight, BottomRight }
             THEN free_w - call.margin
             ELSE HalfDown(free_w)
        y == IF name \in { TopLeft, TopCenter, TopRight } THEN call.margin
             ELSE IF name \in { BottomLeft, BottomCenter, BottomRight }
             THEN free_h - call.margin
             ELSE HalfDown(free_h)
    IN  << x, y >>

(* C18 as stated.  For each of the nine position names                     *)
(* _calculate_watermark_position returns the coordinate of that anchor,    *)
(* and for every name that is not one of the nine it returns the           *)
(* coordinate of 'bottom-right'.                                           *)
C18_OtherNamesAreBottomRight ==
    Positioned
        => ret.value = IF call.position \in NinePositions
                       THEN Anchor(call.position)
                       ELSE Anchor(BottomRight)

(* C18.  For each position name that in lower case is one of the nine,     *)
(* _calculate_watermark_position returns the coordinate of that anchor,    *)
(* computed from image size, text extent and margin; for every other name  *)
(* it returns the coordinate of 'bottom-right', (image_width -             *)
(* text_width - margin, image_height - text_height - margin), and does     *)
(* not raise.                                                              *)
C18_NamesMatchedInLowerCase ==
    Positioned
        => ret.value = IF Lower(call.position) \in NinePositions
                       THEN Anchor(Lower(call.position))
                       ELSE << call.img_size[1] - call.text_size[1] - call.margin,
                               call.img_size[2] - call.text_size[2] - call.margin >>

\* The name 'center-center', which is none of the nine, has been looked up
\* for a 2 x 1 text on a 4 x 3 image with margin 0: the coordinate is that
\* of 'bottom-right' and not that of 'center'.
C18_Witness ==
    /\ Positioned
    /\ call.position = <<"c", "e", "n", "t", "e", "r", "-", "c", "e", "n", "t", "e", "r">>
    /\ call.img_size = << 4, 3 >>
    /\ call.text_size = << 2, 1 >>
    /\ call.margin = 0
    /\ ret.value = << 2, 2 >>
    /\ ret.value # Anchor(Center)

\* The opacity a watermark call asks for: the keyword argument, or the
\* default 0.7.
AskedOpacity ==
    IF "opacity" \in DOMAIN call.kwargs THEN call.kwargs["opacity"]
    ELSE DEFAULT_WATERMARK.opacity

\* The fill with which the text of the watermark call was drawn: the
\* colour and the alpha value.
DrawnFill == ret.value.img.px[Len(ret.value.img.px)].args[4]

(* C19.  For every opacity from 0.0 to 1.0 the alpha value with which the  *)
(* watermark text is drawn is round(255 * opacity).                        *)
C19_AlphaIsRounded ==
    (Watermarked /\ ret.value.ok /\ Truthy(Get(call.kwargs, "text")))
        => DrawnFill[4] = Round(255 * AskedOpacity[1], AskedOpacity[2])

(***************************************************************************)
(* Claims about 'convert' and 'compress'.                                  *)
(***************************************************************************)
\* ops without its 'convert' and 'compress'.
WithoutMarkers(ops) ==
    SelectSeq(ops, LAMBDA o : o \notin { "convert", "compress" })

\* The image decoded from the file process_images is at.
Decoded == SourceImage(EntryAt(img_path))

(* C20.  'convert' and 'compress' are identity transforms in the fold:     *)
(* _apply_operation returns the image it was given, so the image that      *)
(* reaches save is the one the operation list without them gives.  The     *)
(* format and the quality of the parameter bag decide the output path and  *)
(* the save parameters and nothing else, whether or not 'convert' and      *)
(* 'compress' are in the list.                                             *)
C20_MarkersAreIdentity ==
    /\ pc \in { "fold", "saving", "exit_saved", "saved" } =>
         Return(img)
           = Fold(Decoded, WithoutMarkers(SubSeq(operations, 1, opi)), kwargs)
    /\ (pc = "fold" /\ opi >= 1 /\ operations[opi] \in { "convert", "compress" }) =>
         Return(img) = Fold(Decoded, SubSeq(operations, 1, opi - 1), kwargs)
    /\ (pc = "exit_raised" /\ opi < Len(operations)) =>
         /\ ~Fold(Decoded, WithoutMarkers(operations), kwargs).ok
         /\ err = Fold(Decoded, WithoutMarkers(operations), kwargs).err
    /\ pc \in { "exit_saved", "saved" } =>
         outFiles[Len(outFiles)]
           = [path   |-> _get_output_path(output_folder, img_path,
                                          Get(kwargs, "format")),
              img    |-> Fold(Decoded, WithoutMarkers(operations), kwargs).img,
              params |-> _get_save_params(kwargs)]

\* a.gif has been saved under the request of convert, then flip, with
\* format 'PNG': the file written is a.png, saved with the PNG compression
\* level, and its image is the mirrored one and nothing more.
C20_Witness ==
    /\ pc = "exit_saved"
    /\ operations = << "convert", "flip" >>
    /\ kwargs = ("format" :> FormatPNG)
    /\ outFiles[1].path.name = <<"a", ".", "p", "n", "g">>
    /\ outFiles[1].params = ("compress_level" :> PngCompressLevel)
    /\ outFiles[1].img.px = << [call |-> "mirror", args |-> <<>>] >>

(***************************************************************************)
(* Claims about the whole request, under Spec.                             *)
(***************************************************************************)
\* The output path process_images derives for the i-th enumerated file.
OutputPathOf(i) ==
    _get_output_path(output_folder, image_files[i], Get(kwargs, "format"))

\* The enumerated files that come through open, operations and save and
\* whose output path is p.
WritersOf(p) ==
    { i \in 1..Len(image_files) :
        FileOutcome(Enumerated[i]).ok /\ OutputPathOf(i) = p }

\* The positions of the write log that wrote p.
WritesTo(p) == { k \in 1..Len(outFiles) : outFiles[k].path = p }

\* What the file at p holds: the image of the last write to p.
Holds(p) ==
    outFiles[CHOOSE k \in WritesTo(p) : \A m \in WritesTo(p) : m <= k].img

Max(S) == CHOOSE x \in S : \A y \in S : y <= x

(***************************************************************************)
(* C21.  When two enumerated files derive the same output path in one run, *)
(* no collision is detected: every one of them that comes through open,    *)
(* operations and save is recorded in 'success', each of them has written  *)
(* the path, and after the run the path holds the result of the one that   *)
(* comes last in enumeration order.                                        *)
(***************************************************************************)
C21_LastWriteWins ==
    pc = "returned" =>
        \A i \in 1..Len(image_files) :
            LET p == OutputPathOf(i)
                W == WritersOf(p)
            IN  ( i \in W /\ Cardinality(W) > 1 ) =>
                    /\ Count(results.success, Basename(image_files[i])) = 1
                    /\ Cardinality(WritesTo(p)) = Cardinality(W)
                    /\ Holds(p) =
                         Fold(SourceImage(Enumerated[Max(W)]),
                              operations, kwargs).img

\* a.gif and a.PNG were both exported to out/a.png, a.PNG last.
C21_Witness ==
    /\ pc = "returned"
    /\ Len(image_files) = 2
    /\ Basename(image_files[1]) = << "a", ".", "g", "i", "f" >>
    /\ Basename(image_files[2]) = << "a", ".", "P", "N", "G" >>
    /\ OutputPathOf(1) = OutputPathOf(2)
    /\ Len(results.success) = 2
    /\ Len(outFiles) = 2
    /\ Holds(OutputPathOf(1)).src = << "a", ".", "P", "N", "G" >>

\* The export formats the processor is specified to write, in lower case.
ExportFormats ==
    { <<"j", "p", "e", "g">>, <<"p", "n", "g">>, <<"g", "i", "f">>,
      <<"b", "m", "p">>, <<"w", "e", "b", "p">> }

\* The request names an export format, and in no spelling one of
\* ExportFormats.
UnsupportedExport ==
    /\ Truthy(Get(kwargs, "format"))
    /\ Lower(Get(kwargs, "format")) \notin ExportFormats

(***************************************************************************)
(* C24.  A requested export format that is not one of JPEG, PNG, GIF, BMP, *)
(* WEBP never produces a successful output: no file is written and no file *)
(* name is appended to 'success'.                                          *)
(***************************************************************************)
C24_UnsupportedExportNeverSucceeds ==
    UnsupportedExport => results.success = <<>> /\ outFiles = <<>>

\* The fold of the operations over the file the loop is at.
FoldOfCurrent == Fold(SourceImage(EntryAt(img_path)), operations, kwargs)

\* The files taken so far that Image.open or an operation refused.
RefusedBeforeSave ==
    { i \in 1..idx :
        \/ Enumerated[i].kind = "dir"
        \/ Enumerated[i].data = "garbage"
        \/ ~Fold(SourceImage(Enumerated[i]), operations, kwargs).ok }

\* img.save opens a path only at the end of the inner loop, with the image
\* the whole fold returned.
SaveOpensAfterFold ==
    ( wfile' # wfile /\ wfile' # NoPath ) =>
        /\ pc = "fold"
        /\ opi = Len(operations)
        /\ FoldOfCurrent = Return(img)

\* A write is the one write of the file the loop is at.
WriteOncePerFile ==
    outFiles' # outFiles =>
        /\ wfile # NoPath
        /\ outFiles' = Append(outFiles, outFiles'[Len(outFiles')])
        /\ outFiles'[Len(outFiles')].img = img
        /\ img.src = img_path.name
        /\ \A k \in 1..Len(outFiles) : outFiles[k].img.src # img_path.name

\* A name is appended to 'success' after the save of that file returned.
SuccessAfterSave ==
    results'.success # results.success =>
        /\ results'.success = Append(results.success, filename)
        /\ wfile = NoPath
        /\ outFiles # <<>>
        /\ outFiles[Len(outFiles)].img.src = filename

(***************************************************************************)
(* C26.  For every file, a save is attempted only after the file was       *)
(* opened and every requested operation returned without error; a file     *)
(* whose open or whose fold failed has no write; its name is appended to   *)
(* 'success' only after its save returned; and each file is written at     *)
(* most once.                                                              *)
(***************************************************************************)
C26_SaveAfterFoldSuccessAfterSave ==
    /\ [][SaveOpensAfterFold /\ WriteOncePerFile /\ SuccessAfterSave]_vars
    /\ [](\A i \in RefusedBeforeSave :
             \A k \in 1..Len(outFiles) :
                 outFiles[k].img.src # Enumerated[i].name)

\* A run of one operation has returned: the first file was written and
\* recorded, the second was refused by the operation and never written.
C26_Witness ==
    /\ pc = "returned"
    /\ Len(operations) = 1
    /\ Len(image_files) = 2
    /\ RefusedBeforeSave = { 2 }
    /\ Enumerated[2].data = "truncated"
    /\ results.success = << Basename(image_files[1]) >>
    /\ Len(outFiles) = 1
    /\ outFiles[1].img.src = Enumerated[1].name

(***************************************************************************)
(* C25.  process_images treats the request as read-only: no step of the    *)
(* call changes the operation list, the parameter bag or the class-level   *)
(* DEFAULT_WATERMARK, so that every operation of every file is invoked     *)
(* with the bag the call was given and the class defaults are afterwards   *)
(* what the class body made them.                                          *)
(***************************************************************************)
C25_RequestIsReadOnly ==
    /\ [][/\ operations' = operations
          /\ kwargs' = kwargs
          /\ default_watermark' = default_watermark]_vars
    /\ [](default_watermark = DEFAULT_WATERMARK)

\* A run has returned in which _add_watermark merged a text of the bag
\* with the defaults.
C25_Witness ==
    /\ pc = "returned"
    /\ Len(image_files) = 1
    /\ operations = << "watermark", "watermark" >>
    /\ Truthy(Get(kwargs, "text"))
    /\ kwargs["text"] # default_watermark.text
    /\ Len(results.success) + Len(results.failed) = 1

(***************************************************************************)
(* The window of gui.py: the worker threads of _process_images and the     *)
(* Tk thread that runs the button commands and _process_messages.          *)
(***************************************************************************)
\* The extensions of the listing filter of lines 462-463.
GuiExtensions ==
    { <<".", "j", "p", "g">>, <<".", "j", "p", "e", "g">>,
      <<".", "p", "n", "g">>, <<".", "g", "i", "f">>,
      <<".", "b", "m", "p">>, <<".", "w", "e", "b", "p">> }

\* The entries the input folder of the window may hold: an image, a file
\* that is no image, and a file the filter drops.
GuiEntryPool ==
    { e \in EntryPool : e.name[1] \in { "a", "b", "n" } /\ e.name[3] # "P" }

\* The list comprehension of lines 462-463 over os.listdir(input_folder).
GuiImageFiles(entries) ==
    LET names == [k \in 1..Len(entries) |-> entries[k].name]
        keep(f) == \E x \in GuiExtensions : EndsWith(Lower(f), x)
    IN  SelectSeq(names, keep)

\* A message of self.message_queue, the tuple (msg_type, msg_data): the
\* data of 'progress' are (i, total, filename), those of 'success' a text
\* made of i and total, those of 'error' one of three texts, the text of
\* line 487 made of filename; 'done' has none.
Message(type, text, i, total, name) ==
    [type |-> type, text |-> text, i |-> i, total |-> total,
     filename |-> name]

\* A thread that threading.Thread(target=self._process_images) has just
\* started.  i is the loop variable; handled counts the files whose try
\* block has ended, sent is the list of the messages the thread has put,
\* stopped says whether _stop_processing has run since the thread started.
NewThread ==
    [pc |-> "list", image_files |-> <<>>, i |-> 0, handled |-> 0,
     sent |-> <<>>, stopped |-> FALSE]

\* A thread that has left _process_images: its locals are gone, and what
\* it has put is told by the step that ended it.
Finished ==
    [pc |-> "finished", image_files |-> <<>>, i |-> 0, handled |-> 0,
     sent |-> <<>>, stopped |-> FALSE]

\* The threads that have not left _process_images.
Alive == { t \in 1..Len(threads) : threads[t].pc # "finished" }

\* self.message_queue.put(m) by thread t, which goes on at position pos.
Put(t, m, pos) ==
    /\ message_queue' = Append(message_queue, m)
    /\ threads' = [threads EXCEPT ![t].sent = Append(@, m), ![t].pc = pos]

\* self.message_queue.put(m) as the last statement of thread t.
PutAndEnd(t, m) ==
    /\ message_queue' = Append(message_queue, m)
    /\ threads' = [threads EXCEPT ![t] = Finished]

\* _update_ui_state: the states of start_btn and stop_btn for a value of
\* self.processing.
StartBtnState(p) == IF p THEN "disabled" ELSE "normal"
StopBtnState(p) == IF p THEN "normal" ELSE "disabled"

\* The window is shown: the input folder is "in", the output folder any.
GuiInit ==
    /\ listing \in Listings(GuiEntryPool, MaxFiles)
    /\ output_folder \in Folders
    /\ operations = <<>>
    /\ kwargs = <<>>
    /\ textsize = <<>>
    /\ default_watermark = DEFAULT_WATERMARK
    /\ outState = "dir"
    /\ NotConstructed
    /\ call = NoCall
    /\ ret = NoReturn
    /\ GuiIdle

\* A click on start_btn, which Tk delivers between two callbacks and only
\* to a button that is not disabled: _start_processing.
_start_processing ==
    /\ start_btn = "normal"
    /\ Len(threads) < MaxStarts
    /\ IF processing \/ output_folder = "in"
       THEN UNCHANGED << processing, start_btn, stop_btn, threads >>
       ELSE /\ processing' = TRUE
            /\ start_btn' = StartBtnState(TRUE)
            /\ stop_btn' = StopBtnState(TRUE)
            /\ threads' = Append(threads, NewThread)
    /\ UNCHANGED << message_queue, core >>

\* A click on stop_btn: _stop_processing.
_stop_processing ==
    /\ stop_btn = "normal"
    /\ processing' = FALSE
    /\ threads' = [t \in 1..Len(threads) |->
                      IF t \in Alive
                      THEN [threads[t] EXCEPT !.stopped = TRUE]
                      ELSE threads[t]]
    /\ UNCHANGED << start_btn, stop_btn, message_queue, core >>

\* _process_messages, which Tk runs every 100 ms: get_nowait() hands over
\* the queued messages, oldest first, until it raises queue.Empty.
\* 'success' and 'done' clear the flag and refresh the buttons; 'progress'
\* and 'error' write to the status bar and the log only.  A message put
\* while the callback runs is handled as if put before it or after it.
_process_messages ==
    /\ message_queue # <<>>
    /\ message_queue' = <<>>
    /\ IF \E k \in 1..Len(message_queue) :
              message_queue[k].type \in { "success", "done" }
       THEN /\ processing' = FALSE
            /\ start_btn' = StartBtnState(FALSE)
            /\ stop_btn' = StopBtnState(FALSE)
       ELSE UNCHANGED << processing, start_btn, stop_btn >>
    /\ UNCHANGED << threads, core >>

\* ListInput with the return of line 468 skipping the finally clause.
ListInputNoFinally(t) ==
    /\ t \in 1..Len(threads)
    /\ threads[t].pc = "list"
    /\ \/ Put(t, Message("error", "listing failed", 0, 0, <<>>), "finally")
       \/ LET files == GuiImageFiles(listing)
          IN  IF Len(files) = 0
              THEN PutAndEnd(t, Message("error", "no image files", 0, 0, <<>>))
              ELSE /\ threads' = [threads EXCEPT ![t].image_files = files,
                                                 ![t].pc = "loop"]
                   /\ UNCHANGED message_queue
    /\ UNCHANGED << processing, start_btn, stop_btn, core >>

\* Lines 457-468 and 492-493: os.listdir raises where the input folder is
\* gone, and the outer except clause puts an error; else the names with an
\* image extension are kept, and an empty list puts an error and returns
\* through the finally clause.
ListInput(t) ==
    /\ t \in 1..Len(threads)
    /\ threads[t].pc = "list"
    /\ \/ Put(t, Message("error", "listing failed", 0, 0, <<>>), "finally")
       \/ LET files == GuiImageFiles(listing)
          IN  IF Len(files) = 0
              THEN Put(t, Message("error", "no image files", 0, 0, <<>>), "finally")
              ELSE /\ threads' = [threads EXCEPT ![t].image_files = files,
                                                 ![t].pc = "loop"]
                   /\ UNCHANGED message_queue
    /\ UNCHANGED << processing, start_btn, stop_btn, core >>

\* Lines 470-472: enumerate hands over the next file, or the loop ends;
\* with a file in hand the flag is read, and a cleared flag breaks.
CheckFlag(t) ==
    /\ t \in 1..Len(threads)
    /\ threads[t].pc = "loop"
    /\ IF threads[t].i = Len(threads[t].image_files)
       THEN threads' = [threads EXCEPT ![t].pc = "summary"]
       ELSE threads' = [threads EXCEPT
                ![t].i = @ + 1,
                ![t].pc = IF processing THEN "progress" ELSE "summary"]
    /\ UNCHANGED << processing, start_btn, stop_btn, message_queue, core >>

\* Line 479: the progress message of the file in hand.
PutProgress(t) ==
    /\ t \in 1..Len(threads)
    /\ threads[t].pc = "progress"
    /\ LET w == threads[t]
       IN  Put(t, Message("progress", "", w.i, Len(w.image_files),
                          w.image_files[w.i]),
               "work")
    /\ UNCHANGED << processing, start_btn, stop_btn, core >>

\* Lines 482-487: open, _apply_effects and save; what is no decodable
\* image raises into the except clause, which puts an error.
ProcessFile(t) ==
    /\ t \in 1..Len(threads)
    /\ threads[t].pc = "work"
    /\ LET w     == threads[t]
           entry == CHOOSE e \in { listing[k] : k \in 1..Len(listing) } :
                        e.name = w.image_files[w.i]
           m     == Message("error", "file failed", 0, 0, w.image_files[w.i])
       IN  IF Decodable(entry)
           THEN /\ threads' = [threads EXCEPT ![t].handled = @ + 1,
                                              ![t].pc = "loop"]
                /\ UNCHANGED message_queue
           ELSE /\ threads' = [threads EXCEPT ![t].handled = @ + 1,
                                              ![t].sent = Append(@, m),
                                              ![t].pc = "loop"]
                /\ message_queue' = Append(message_queue, m)
    /\ UNCHANGED << processing, start_btn, stop_btn, core >>

\* Line 489: the flag is read once more after the loop.
CheckSummary(t) ==
    /\ t \in 1..Len(threads)
    /\ threads[t].pc = "summary"
    /\ threads' = [threads EXCEPT
           ![t].pc = IF processing THEN "success" ELSE "finally"]
    /\ UNCHANGED << processing, start_btn, stop_btn, message_queue, core >>

\* Line 490: the summary message.
PutSuccess(t) ==
    /\ t \in 1..Len(threads)
    /\ threads[t].pc = "success"
    /\ Put(t, Message("success", "", threads[t].i,
                      Len(threads[t].image_files), <<>>),
           "finally")
    /\ UNCHANGED << processing, start_btn, stop_btn, core >>

\* Lines 495-496: the finally clause; the thread ends.
PutDone(t) ==
    /\ t \in 1..Len(threads)
    /\ threads[t].pc = "finally"
    /\ PutAndEnd(t, Message("done", "", 0, 0, <<>>))
    /\ UNCHANGED << processing, start_btn, stop_btn, core >>

\* One step of thread t.
ThreadStep(t) ==
    \/ ListInput(t)
    \/ CheckFlag(t)
    \/ PutProgress(t)
    \/ ProcessFile(t)
    \/ CheckSummary(t)
    \/ PutSuccess(t)
    \/ PutDone(t)

GuiNext ==
    \/ _start_processing
    \/ _stop_processing
    \/ _process_messages
    \/ \E t \in 1..MaxStarts : ListInput(t)
    \/ \E t \in 1..MaxStarts : CheckFlag(t)
    \/ \E t \in 1..MaxStarts : PutProgress(t)
    \/ \E t \in 1..MaxStarts : ProcessFile(t)
    \/ \E t \in 1..MaxStarts : CheckSummary(t)
    \/ \E t \in 1..MaxStarts : PutSuccess(t)
    \/ \E t \in 1..MaxStarts : PutDone(t)

SpecGui == GuiInit /\ [][GuiNext]_vars

\* SpecGui with every started thread scheduled again and again and Tk
\* running _process_messages every 100 ms; the clicks are the user's and
\* may never come.
SpecGuiLive ==
    /\ SpecGui
    /\ \A t \in 1..MaxStarts : WF_vars(ThreadStep(t))
    /\ WF_vars(_process_messages)

(***************************************************************************)
(* Claims about the window, under SpecGui and SpecGuiLive.                 *)
(***************************************************************************)
\* The positions of the messages of type that thread t has put.
SentOf(t, type) ==
    { k \in 1..Len(threads[t].sent) : threads[t].sent[k].type = type }

\* A step in which thread t, at the head of its loop with a file left,
\* goes on to that file.
StartsFile(t) ==
    /\ threads[t].pc = "loop"
    /\ threads'[t].pc = "progress"

\* A step in which thread t, past its loop, goes on to the summary message.
GoesToSummary(t) ==
    /\ threads[t].pc = "summary"
    /\ threads'[t].pc = "success"

\* A step that ends the file thread t is processing.
CompletesFile(t) ==
    /\ threads[t].pc = "work"
    /\ threads'[t].pc = "loop"
    /\ threads'[t].handled = threads[t].handled + 1

(***************************************************************************)
(* C22.  Once _stop_processing has cleared the flag, a worker that was     *)
(* running starts no file whose check happens afterwards and, its check    *)
(* after the loop happening afterwards, puts no 'success' message; the     *)
(* file it is processing at the click runs to completion.                  *)
(***************************************************************************)
C22_StopIsObeyed ==
    [][\A t \in Alive :
           threads[t].stopped =>
               /\ ~StartsFile(t)
               /\ ~GoesToSummary(t)
               /\ ( threads[t].pc = "work" /\ threads'[t] # threads[t] ) =>
                      CompletesFile(t)]_vars

(***************************************************************************)
(* C23.  The progress message (i, total, filename) of file i is put after  *)
(* file i has completed, so that no progress message of index i is on      *)
(* record while file i is unprocessed; and the indices a worker puts are   *)
(* 1, 2, ... in this order, all with the same total.                       *)
(***************************************************************************)
C23_ProgressAfterCompletion ==
    \A t \in Alive :
        LET w        == threads[t]
            progress == SelectSeq(w.sent, LAMBDA m : m.type = "progress")
        IN  /\ \A k \in 1..Len(progress) : progress[k].i <= w.handled
            /\ \A k \in 1..Len(progress) :
                   /\ progress[k].i = k
                   /\ progress[k].total = Len(w.image_files)

(***************************************************************************)
(* C27.  At most one worker thread executes _process_images at any time:   *)
(* _start_processing never starts a thread while one started before has    *)
(* not finished.                                                           *)
(***************************************************************************)
C27_AtMostOneWorker ==
    Cardinality(Alive) <= 1

\* Thread t leaves _process_images in this step.
Ends(t) ==
    /\ t \in Alive
    /\ threads'[t].pc = "finished"

\* A thread leaves _process_images by putting 'done', and only a thread
\* that has not left puts a message.
DoneIsLast ==
    /\ \A t \in 1..Len(threads) :
           Ends(t) =>
               /\ Len(message_queue') = Len(message_queue) + 1
               /\ message_queue'[Len(message_queue')].type = "done"
    /\ Len(message_queue') > Len(message_queue) =>
           \E t \in Alive :
               \/ Ends(t)
               \/ threads'[t].sent =
                      Append(threads[t].sent,
                             message_queue'[Len(message_queue')])

(***************************************************************************)
(* C28.  Every started worker eventually puts exactly one 'done' message,  *)
(* and it is the last message that worker puts, on every path (normal     *)
(* completion, no image files, cancellation, per-file errors, an exception *)
(* while listing the input folder): it has put no 'done' while it runs,    *)
(* it ends by putting 'done', and it does not run for ever; and, the       *)
(* window polling its queue, again and again the processing flag is clear  *)
(* with the start button enabled.                                          *)
(***************************************************************************)
C28_DoneAlwaysComes ==
    /\ [](\A t \in Alive : SentOf(t, "done") = {})
    /\ [][DoneIsLast]_vars
    /\ \A t \in 1..MaxStarts : []<>(t \notin Alive)
    /\ []<>(~processing /\ start_btn = "normal")

\* A cancelled run has just ended: of two files the thread announced the
\* first, broke out of the loop at the second, and put 'done' and no
\* 'success'.
C28_Witness ==
    /\ Len(threads) = 1
    /\ threads[1].pc = "finished"
    /\ ~processing
    /\ start_btn = "disabled"
    /\ Len(message_queue) = 2
    /\ message_queue[1].type = "progress"
    /\ message_queue[1].total = 2
    /\ message_queue[2].type = "done"

====
